---- MODULE Spec2Model ----
(***************************************************************************)
(* A model of go-readability's article extraction engine:                  *)
(* Parser.ParseDocument (parser-parse.go) and the passes it drives in      *)
(* parser.go (prepDocument, grabArticle with its retry loop, prepArticle,  *)
(* postProcessContent).                                                    *)
(*                                                                         *)
(* Representation.                                                         *)
(*  - A string is a sequence of runs [c, n]: n >= 1 copies of character c, *)
(*    adjacent runs having different characters.  " " stands for any       *)
(*    white-space character, "," for a comma, "." for a period and every   *)
(*    other c for a word character.  All string functions of the program   *)
(*    (trim, normalise, count, concatenate, the regular expressions) are   *)
(*    computed on this form.                                               *)
(*  - A DOM tree is an arena: a sequence of nodes, a node being referred   *)
(*    to by its index (0 is the nil pointer).  Node 1 is the document      *)
(*    node.  A removed node stays in the arena with parent 0, as a         *)
(*    detached *html.Node stays alive while it is referenced.              *)
(*  - The Go heap is `heap`: tree handle -> arena.  dom.Clone(doc, true)   *)
(*    allocates a new handle; a node of another tree is the pair           *)
(*    [h, n].                                                              *)
(*  - Content scores are fixed-point numbers with four decimals (the       *)
(*    program stores them with fmt.Sprintf("%.4f")), i.e. integers scaled  *)
(*    by ScoreScale.                                                       *)
(***************************************************************************)
EXTENDS Integers, Sequences, FiniteSets, TLC

(***************************************************************************)
(* Bounds of the model                                                     *)
(***************************************************************************)
\* greatest number of blocks put under <body> in an input document
MaxBlocks == 2

(***************************************************************************)
(* Sequencing.  The program runs its statements one after the other; Then  *)
(* is the value y once the tree (or record) x of the statement before has  *)
(* been computed.                                                          *)
(***************************************************************************)
Then(x, y) == IF DOMAIN x = {} THEN y ELSE y

(***************************************************************************)
(* Strings                                                                 *)
(***************************************************************************)
Run(c, n) == [c |-> c, n |-> n]

Str(c, n) == IF n = 0 THEN << >> ELSE << Run(c, n) >>

StrCat(a, b) ==
  IF a = << >> THEN b
  ELSE IF b = << >> THEN a
  ELSE IF a[Len(a)].c = b[1].c
       THEN SubSeq(a, 1, Len(a) - 1) \o << Run(b[1].c, a[Len(a)].n + b[1].n) >> \o Tail(b)
       ELSE a \o b

IsSpaceChar(c) == c = " "

IsWordChar(c) == c \notin {" ", ",", ".", "-", "|", ":", "/"}

TrimSpace(s) ==
  LET l == IF s # << >> /\ IsSpaceChar(s[1].c) THEN Tail(s) ELSE s
  IN  IF l # << >> /\ IsSpaceChar(l[Len(l)].c) THEN SubSeq(l, 1, Len(l) - 1) ELSE l

NormalizeSpaces(s) ==
  [i \in DOMAIN s |-> IF IsSpaceChar(s[i].c) /\ s[i].n >= 2 THEN Run(" ", 1) ELSE s[i]]

RECURSIVE charCount(_)
charCount(s) == IF s = << >> THEN 0 ELSE s[1].n + charCount(Tail(s))

RECURSIVE CountChar(_, _)
CountChar(s, c) ==
  IF s = << >> THEN 0
  ELSE (IF s[1].c = c THEN s[1].n ELSE 0) + CountChar(Tail(s), c)

CountCommas(s) == CountChar(s, ",")

\* rxWhitespace  ^\s*$
rxWhitespace(s) == \A i \in DOMAIN s : IsSpaceChar(s[i].c)

\* rxHasContent  \S$
rxHasContent(s) == s # << >> /\ ~IsSpaceChar(s[Len(s)].c)

\* rxSentencePeriod  \.( |$)
rxSentencePeriod(s) ==
  \E i \in DOMAIN s : s[i].c = "." /\ (i = Len(s) \/ IsSpaceChar(s[i + 1].c))

(***************************************************************************)
(* The DOM (golang.org/x/net/html nodes behind github.com/go-shiori/dom)   *)
(***************************************************************************)
NoAttrs == [k \in {} |-> << >>]

ElementNode(tag, attrs) ==
  [type |-> "elem", tag |-> tag, attrs |-> attrs, text |-> << >>, parent |-> 0, kids |-> << >>]

TextNode(s) ==
  [type |-> "text", tag |-> "", attrs |-> NoAttrs, text |-> s, parent |-> 0, kids |-> << >>]

CommentNode ==
  [type |-> "comment", tag |-> "", attrs |-> NoAttrs, text |-> << >>, parent |-> 0, kids |-> << >>]

DocumentNode ==
  [type |-> "doc", tag |-> "", attrs |-> NoAttrs, text |-> << >>, parent |-> 0, kids |-> << >>]

IsElement(d, n) == n # 0 /\ d[n].type = "elem"

IsText(d, n) == n # 0 /\ d[n].type = "text"

TagName(d, n) == IF IsElement(d, n) THEN d[n].tag ELSE ""

HasAttribute(d, n, k) == k \in DOMAIN d[n].attrs

\* an attribute value is the sequence of its white-space separated tokens;
\* the empty string is << >>
GetAttribute(d, n, k) == IF k \in DOMAIN d[n].attrs THEN d[n].attrs[k] ELSE << >>

SetAttribute(d, n, k, v) ==
  [d EXCEPT ![n].attrs = [x \in (DOMAIN @) \cup {k} |-> IF x = k THEN v ELSE @[x]]]

RemoveAttribute(d, n, k) ==
  [d EXCEPT ![n].attrs = [x \in (DOMAIN @) \ {k} |-> @[x]]]

ClassName(d, n) == GetAttribute(d, n, "class")

ID(d, n) == GetAttribute(d, n, "id")

ChildNodes(d, n) == d[n].kids

Children(d, n) == SelectSeq(d[n].kids, LAMBDA k : d[k].type = "elem")

FirstChild(d, n) == IF d[n].kids = << >> THEN 0 ELSE d[n].kids[1]

LastChild(d, n) == IF d[n].kids = << >> THEN 0 ELSE d[n].kids[Len(d[n].kids)]

FirstElementChild(d, n) == IF Children(d, n) = << >> THEN 0 ELSE Children(d, n)[1]

PosIn(s, x) == CHOOSE i \in DOMAIN s : s[i] = x

NextSibling(d, n) ==
  IF d[n].parent = 0 THEN 0
  ELSE LET ks == d[d[n].parent].kids
           i  == PosIn(ks, n)
       IN  IF i = Len(ks) THEN 0 ELSE ks[i + 1]

NextElementSibling(d, n) ==
  IF d[n].parent = 0 THEN 0
  ELSE LET ks == d[d[n].parent].kids
           i  == PosIn(ks, n)
           after == SelectSeq(SubSeq(ks, i + 1, Len(ks)), LAMBDA k : d[k].type = "elem")
       IN  IF after = << >> THEN 0 ELSE after[1]

PreviousElementSibling(d, n) ==
  IF d[n].parent = 0 THEN 0
  ELSE LET ks == d[d[n].parent].kids
           i  == PosIn(ks, n)
           before == SelectSeq(SubSeq(ks, 1, i - 1), LAMBDA k : d[k].type = "elem")
       IN  IF before = << >> THEN 0 ELSE before[Len(before)]

VoidElements ==
  {"area", "base", "br", "col", "embed", "hr", "img", "input", "keygen",
   "link", "meta", "param", "source", "track", "wbr"}

IsVoidElement(d, n) == TagName(d, n) \in VoidElements

RemoveChild(d, n) ==
  IF d[n].parent = 0 THEN d
  ELSE [d EXCEPT ![d[n].parent].kids = SelectSeq(@, LAMBDA k : k # n),
                 ![n].parent = 0]

AppendChild(d, p, c) ==
  IF IsVoidElement(d, p) THEN d
  ELSE LET d1 == RemoveChild(d, c)
       IN  [d1 EXCEPT ![p].kids = Append(@, c), ![c].parent = p]

ReplaceChild(d, par, new, old) ==
  IF par = 0 \/ d[old].parent # par THEN d
  ELSE LET d1 == RemoveChild(d, new)
           i  == PosIn(d1[par].kids, old)
       IN  [d1 EXCEPT ![par].kids = [j \in DOMAIN @ |-> IF j = i THEN new ELSE @[j]],
                      ![new].parent = par,
                      ![old].parent = 0]

\* dom.CreateElement / dom.CreateTextNode: the new node is Len(d) + 1
CreateElement(d, tag) == Append(d, ElementNode(tag, NoAttrs))

CreateTextNode(d, s) == Append(d, TextNode(s))

RECURSIVE TextOfNodes(_, _)
\* the text of the nodes ks and of what is below them, in document order
\* (a list of several nodes is handled by halves)
TextOfNodes(d, ks) ==
  IF ks = << >> THEN << >>
  ELSE IF Len(ks) = 1
  THEN IF d[ks[1]].type = "text" THEN d[ks[1]].text ELSE TextOfNodes(d, d[ks[1]].kids)
  ELSE LET h == Len(ks) \div 2
       IN  StrCat(TextOfNodes(d, SubSeq(ks, 1, h)), TextOfNodes(d, SubSeq(ks, h + 1, Len(ks))))

TextContent(d, n) == TextOfNodes(d, << n >>)

RECURSIVE NodesOf(_, _)
\* the nodes ks and the nodes below them, in document order
NodesOf(d, ks) ==
  IF ks = << >> THEN << >>
  ELSE IF Len(ks) = 1 THEN ks \o NodesOf(d, d[ks[1]].kids)
  ELSE LET h == Len(ks) \div 2
       IN  NodesOf(d, SubSeq(ks, 1, h)) \o NodesOf(d, SubSeq(ks, h + 1, Len(ks)))

\* every node of the subtree of n, n included, in document order
AllNodes(d, n) == NodesOf(d, << n >>)

\* the elements among the nodes ks and below them, in document order
Descendants(d, ks) == SelectSeq(NodesOf(d, ks), LAMBDA x : d[x].type = "elem")

GetElementsByTagName(d, n, tag) ==
  SelectSeq(Descendants(d, d[n].kids), LAMBDA x : tag = "*" \/ d[x].tag = tag)

DocumentElement(d, n) == FirstElementChild(d, n)

\* dom.Clone(n, true) of node n of arena s, appended to arena d under par
\* (par = 0: detached): every node of the subtree is copied, in document
\* order, with its links redirected to the copies; the copy of n is node
\* Len(d) + 1
CloneTree(d, s, n, par) ==
  LET nodes == AllNodes(s, n)
      copyOf(x) == Len(d) + PosIn(nodes, x)
      copies == [i \in DOMAIN nodes |->
                   [s[nodes[i]] EXCEPT
                      !.parent = IF i = 1 THEN par ELSE copyOf(@),
                      !.kids = [j \in DOMAIN @ |-> copyOf(@[j])]]]
      d1 == IF par = 0 THEN d ELSE [d EXCEPT ![par].kids = Append(@, Len(d) + 1)]
  IN  d1 \o copies

(***************************************************************************)
(* Classifier (internal/re2go) and the regular expressions of parser.go.   *)
(* A pattern is the set of its alternatives; a value matches when one of   *)
(* its tokens is an alternative (the tokens of the model's vocabulary      *)
(* contain an alternative only by being equal to it).                      *)
(***************************************************************************)
Contains(v, w) == \E i \in DOMAIN v : v[i] = w

MatchesAny(v, words) == \E i \in DOMAIN v : v[i] \in words

UnlikelyWords ==
  {"-ad-", "ai2html", "banner", "breadcrumbs", "combx", "comment", "community",
   "cover-wrap", "disqus", "extra", "footer", "gdpr", "header", "legends", "menu",
   "related", "remark", "replies", "rss", "shoutbox", "sidebar", "skyscraper",
   "social", "sponsor", "supplemental", "ad-break", "agegate", "pagination",
   "pager", "popup", "yom-remote"}

MaybeWords == {"and", "article", "body", "column", "content", "main", "shadow"}

BylineWords == {"byline", "author", "dateline", "writtenby", "p-author"}

PositiveWords ==
  {"article", "body", "content", "entry", "hentry", "h-entry", "main", "page",
   "pagination", "post", "text", "blog", "story"}

NegativeWords ==
  {"hidden", "hid", "banner", "combx", "comment", "com-", "contact", "foot",
   "footer", "footnote", "gdpr", "masthead", "media", "meta", "outbrain", "promo",
   "related", "scroll", "share", "shoutbox", "sidebar", "skyscraper", "sponsor",
   "shopping", "tags", "tool", "widget"}

IsUnlikelyCandidates(v) == MatchesAny(v, UnlikelyWords)

MaybeItsACandidate(v) == MatchesAny(v, MaybeWords)

IsByline(v) == MatchesAny(v, BylineWords)

IsPositiveClass(v) == MatchesAny(v, PositiveWords)

IsNegativeClass(v) == MatchesAny(v, NegativeWords)

\* rxShareElements  (\b|_)(share|sharedaddy)(\b|_)
rxShareElements(v) == MatchesAny(v, {"share", "sharedaddy"})

\* rxDisplayNone  display\s*:\s*none
rxDisplayNone(v) == Contains(v, "display:none")

\* rxVisibilityHidden  visibility\s*:\s*hidden
rxVisibilityHidden(v) == Contains(v, "visibility:hidden")

\* rxHashURL  ^#.+
rxHashURL(v) == Len(v) = 1 /\ v[1] \in {"#frag"}

\* rxVideos, matched against an attribute value
rxVideos(v) == Contains(v, "//www.youtube.com/embed/x")

(***************************************************************************)
(* Constants of parser.go                                                  *)
(***************************************************************************)
unlikelyRoles ==
  {"menu", "menubar", "complementary", "navigation", "alert", "alertdialog", "dialog"}

divToPElems ==
  {"blockquote", "dl", "div", "img", "ol", "p", "pre", "table", "ul", "select"}

alterToDivExceptions == {"div", "article", "section", "p"}

presentationalAttributes ==
  {"align", "background", "bgcolor", "border", "cellpadding", "cellspacing",
   "frame", "hspace", "rules", "style", "valign", "vspace"}

deprecatedSizeAttributeElems == {"table", "th", "td", "hr", "pre"}

phrasingElems ==
  {"abbr", "audio", "b", "bdo", "br", "button", "cite", "code", "data",
   "datalist", "dfn", "em", "embed", "i", "img", "input", "kbd", "label",
   "mark", "math", "meter", "noscript", "object", "output", "progress", "q",
   "ruby", "samp", "script", "select", "small", "span", "strong", "sub",
   "sup", "textarea", "time", "var", "wbr"}

\* content scores are stored with four decimals
ScoreScale == 10000

\* a / b rounded to the nearest integer (b > 0)
RoundDiv(a, b) ==
  IF a >= 0 THEN (2 * a + b) \div (2 * b) ELSE 0 - ((2 * (0 - a) + b) \div (2 * b))

(***************************************************************************)
(* Helpers of parser.go                                                    *)
(***************************************************************************)
RECURSIVE ParentWithNextSibling(_, _)
\* the loop of getNextNode that climbs to the first ancestor with a next
\* element sibling (0 when there is none)
ParentWithNextSibling(d, n) ==
  LET p == d[n].parent
  IN  IF p = 0 THEN 0
      ELSE IF NextElementSibling(d, p) # 0 THEN p
      ELSE ParentWithNextSibling(d, p)

getNextNode(d, n, ignoreSelfAndKids) ==
  IF ~ignoreSelfAndKids /\ FirstElementChild(d, n) # 0 THEN FirstElementChild(d, n)
  ELSE IF NextElementSibling(d, n) # 0 THEN NextElementSibling(d, n)
  ELSE LET a == ParentWithNextSibling(d, n)
       IN  IF a # 0 THEN NextElementSibling(d, a) ELSE 0

\* returns the tree after the removal and the next node
removeAndGetNext(d, n) ==
  [d |-> RemoveChild(d, n), next |-> getNextNode(d, n, TRUE)]

getInnerText(d, n, normalizeSpaces) ==
  LET t == TrimSpace(TextContent(d, n))
  IN  IF normalizeSpaces THEN NormalizeSpaces(t) ELSE t

hasSingleTagInsideElement(d, e, tag) ==
  /\ Len(Children(d, e)) = 1
  /\ TagName(d, Children(d, e)[1]) = tag
  /\ ~\E i \in DOMAIN d[e].kids :
        d[d[e].kids[i]].type = "text" /\ rxHasContent(TextContent(d, d[e].kids[i]))

isElementWithoutContent(d, n) ==
  /\ d[n].type = "elem"
  /\ TrimSpace(TextContent(d, n)) = << >>
  /\ \/ Len(Children(d, n)) = 0
     \/ Len(Children(d, n)) =
          Len(GetElementsByTagName(d, n, "br")) + Len(GetElementsByTagName(d, n, "hr"))

RECURSIVE hasChildBlockElement(_, _)
hasChildBlockElement(d, e) ==
  \E i \in DOMAIN d[e].kids :
     TagName(d, d[e].kids[i]) \in divToPElems \/ hasChildBlockElement(d, d[e].kids[i])

RECURSIVE isPhrasingContent(_, _)
isPhrasingContent(d, n) ==
  \/ d[n].type = "text"
  \/ TagName(d, n) \in phrasingElems
  \/ /\ TagName(d, n) \in {"a", "del", "ins"}
     /\ \A i \in DOMAIN d[n].kids : isPhrasingContent(d, d[n].kids[i])

isWhitespace(d, n) ==
  \/ d[n].type = "text" /\ TrimSpace(TextContent(d, n)) = << >>
  \/ d[n].type = "elem" /\ TagName(d, n) = "br"

getCharCount(d, n, c) == CountChar(getInnerText(d, n, TRUE), c)

RECURSIVE SumSeq(_)
SumSeq(s) == IF s = << >> THEN 0 ELSE Head(s) + SumSeq(Tail(s))

RECURSIVE GCD(_, _)
GCD(a, b) == IF b = 0 THEN a ELSE GCD(b, a % b)

\* a density is the fraction num / den (den > 0), in lowest terms
Density(num, den) == [num |-> num \div GCD(num, den), den |-> den \div GCD(num, den)]

\* getLinkDensity; a link to a #fragment counts for 0.3 of its length, so
\* lengths are counted in tenths
getLinkDensity(d, e) ==
  LET textLength == charCount(getInnerText(d, e, TRUE))
      links == GetElementsByTagName(d, e, "a")
      linkLength10 ==
        SumSeq([i \in DOMAIN links |->
                  charCount(getInnerText(d, links[i], TRUE)) *
                  (IF GetAttribute(d, links[i], "href") # << >> /\
                      rxHashURL(GetAttribute(d, links[i], "href"))
                   THEN 3 ELSE 10)])
  IN  IF textLength = 0 THEN Density(0, 1) ELSE Density(linkLength10, 10 * textLength)

\* density < a / b   and   density > a / b
DensityLess(x, a, b) == x.num * b < a * x.den

DensityMore(x, a, b) == x.num * b > a * x.den

getTextDensity(d, n, tags) ==
  LET textLength == charCount(getInnerText(d, n, TRUE))
      children == SelectSeq(Descendants(d, d[n].kids), LAMBDA x : d[x].tag \in tags)
      childrenLength ==
        SumSeq([i \in DOMAIN children |-> charCount(getInnerText(d, children[i], TRUE))])
  IN  IF textLength = 0 THEN Density(0, 1) ELSE Density(childrenLength, textLength)

getClassWeight(d, n, flags) ==
  IF ~flags.useWeightClasses THEN 0
  ELSE (IF ClassName(d, n) # << >> /\ IsNegativeClass(ClassName(d, n)) THEN 0 - 25 ELSE 0)
     + (IF ClassName(d, n) # << >> /\ IsPositiveClass(ClassName(d, n)) THEN 25 ELSE 0)
     + (IF ID(d, n) # << >> /\ IsNegativeClass(ID(d, n)) THEN 0 - 25 ELSE 0)
     + (IF ID(d, n) # << >> /\ IsPositiveClass(ID(d, n)) THEN 25 ELSE 0)

setReadabilityDataTable(d, n, isDataTable) ==
  IF isDataTable THEN SetAttribute(d, n, "data-readability-table", << "true" >>)
  ELSE RemoveAttribute(d, n, "data-readability-table")

isReadabilityDataTable(d, n) == HasAttribute(d, n, "data-readability-table")

setContentScore(d, n, score) == SetAttribute(d, n, "data-readability-score", score)

hasContentScore(d, n) == HasAttribute(d, n, "data-readability-score")

getContentScore(d, n) ==
  IF HasAttribute(d, n, "data-readability-score")
  THEN GetAttribute(d, n, "data-readability-score") ELSE 0

RECURSIVE hasAncestorTagFrom(_, _, _, _, _, _)
hasAncestorTagFrom(d, n, tag, maxDepth, depth, dataTableOnly) ==
  IF d[n].parent = 0 THEN FALSE
  ELSE IF maxDepth > 0 /\ depth > maxDepth THEN FALSE
  ELSE IF TagName(d, d[n].parent) = tag
          /\ (~dataTableOnly \/ isReadabilityDataTable(d, d[n].parent)) THEN TRUE
  ELSE hasAncestorTagFrom(d, d[n].parent, tag, maxDepth, depth + 1, dataTableOnly)

\* hasAncestorTag(node, tag, maxDepth, filterFn); filterFn is nil or
\* isReadabilityDataTable in every call of the program
hasAncestorTag(d, n, tag, maxDepth, dataTableOnly) ==
  hasAncestorTagFrom(d, n, tag, maxDepth, 0, dataTableOnly)

RECURSIVE getNodeAncestorsFrom(_, _, _, _)
getNodeAncestorsFrom(d, n, maxDepth, i) ==
  IF d[n].parent = 0 THEN << >>
  ELSE IF maxDepth > 0 /\ i + 1 = maxDepth THEN << d[n].parent >>
  ELSE << d[n].parent >> \o getNodeAncestorsFrom(d, d[n].parent, maxDepth, i + 1)

getNodeAncestors(d, n, maxDepth) == getNodeAncestorsFrom(d, n, maxDepth, 0)

isProbablyVisible(d, n) ==
  LET nodeStyle == GetAttribute(d, n, "style")
      nodeAriaHidden == GetAttribute(d, n, "aria-hidden")
      className == GetAttribute(d, n, "class")
  IN  /\ (nodeStyle = << >> \/ ~rxDisplayNone(nodeStyle))
      /\ (nodeStyle = << >> \/ ~rxVisibilityHidden(nodeStyle))
      /\ ~HasAttribute(d, n, "hidden")
      /\ (nodeAriaHidden = << >> \/ nodeAriaHidden # << "true" >>
          \/ Contains(className, "fallback-image"))

initializeNode(d, n, flags) ==
  LET tag == TagName(d, n)
      base == IF tag = "div" THEN 5
              ELSE IF tag \in {"pre", "td", "blockquote"} THEN 3
              ELSE IF tag \in {"address", "ol", "ul", "dl", "dd", "dt", "li", "form"} THEN 0 - 3
              ELSE IF tag \in {"h1", "h2", "h3", "h4", "h5", "h6", "th"} THEN 0 - 5
              ELSE 0
  IN  setContentScore(d, n, (getClassWeight(d, n, flags) + base) * ScoreScale)

setNodeTag(d, n, newTagName) ==
  IF d[n].type = "elem" THEN [d EXCEPT ![n].tag = newTagName] ELSE d

isValidByline(s) ==
  LET nChar == charCount(TrimSpace(s)) IN nChar > 0 /\ nChar < 100

RECURSIVE Tokenize(_, _)
\* rxTokenize.Split(s) without the empty tokens: the maximal runs of word
\* characters of s (cur is the token being read)
Tokenize(s, cur) ==
  IF s = << >> THEN (IF cur = << >> THEN << >> ELSE << cur >>)
  ELSE IF IsWordChar(s[1].c) THEN Tokenize(Tail(s), Append(cur, s[1]))
  ELSE (IF cur = << >> THEN << >> ELSE << cur >>) \o Tokenize(Tail(s), << >>)

\* charCount(strings.Join(tokens, " "))
JoinedLength(tokens) ==
  IF tokens = << >> THEN 0
  ELSE SumSeq([i \in DOMAIN tokens |-> charCount(tokens[i])]) + Len(tokens) - 1

\* textSimilarity(textA, textB) > 0.75; with no token in textB the program
\* divides 0 by 0 and the comparison with the NaN is false
textSimilarityAbove75(textA, textB) ==
  LET tokensA == Tokenize(textA, << >>)
      tokensB == Tokenize(textB, << >>)
      uniqueTokensB == SelectSeq(tokensB, LAMBDA t : ~\E i \in DOMAIN tokensA : tokensA[i] = t)
  IN  JoinedLength(tokensB) > 0 /\ 4 * JoinedLength(uniqueTokensB) < JoinedLength(tokensB)

headerDuplicatesTitle(d, n, articleTitle) ==
  /\ TagName(d, n) \in {"h1", "h2"}
  /\ textSimilarityAbove75(articleTitle, getInnerText(d, n, FALSE))

\* checkByline without its test of ps.articleByline
checkBylineAgain(d, n, matchString, articleByline) ==
  /\ \/ GetAttribute(d, n, "rel") = << "author" >>
     \/ Contains(GetAttribute(d, n, "itemprop"), "author")
     \/ IsByline(matchString)
  /\ isValidByline(TextContent(d, n))

\* checkByline's condition; when it holds the program sets articleByline to
\* bylineText and returns true
checkByline(d, n, matchString, articleByline) ==
  /\ articleByline = << >>
  /\ \/ GetAttribute(d, n, "rel") = << "author" >>
     \/ Contains(GetAttribute(d, n, "itemprop"), "author")
     \/ IsByline(matchString)
  /\ isValidByline(TextContent(d, n))

bylineText(d, n) == NormalizeSpaces(TrimSpace(TextContent(d, n)))

(***************************************************************************)
(* grabArticle, first part: node prepping (parser.go 785-902)              *)
(***************************************************************************)
RECURSIVE TrimTrailingWhitespace(_, _)
TrimTrailingWhitespace(d, p) ==
  IF LastChild(d, p) # 0 /\ isWhitespace(d, LastChild(d, p))
  THEN TrimTrailingWhitespace(RemoveChild(d, LastChild(d, p)), p)
  ELSE d

RECURSIVE WrapPhrasing(_, _, _, _)
\* "Put phrasing content into paragraphs": the loop over the child nodes of
\* the div `node`; p is the paragraph being filled (0: none)
WrapPhrasing(d, node, childNode, p) ==
  IF childNode = 0 THEN d
  ELSE LET nextSibling == NextSibling(d, childNode)
       IN  IF isPhrasingContent(d, childNode)
           THEN IF p # 0 THEN WrapPhrasing(AppendChild(d, p, childNode), node, nextSibling, p)
                ELSE IF ~isWhitespace(d, childNode)
                THEN LET np == Len(d) + 1
                         d1 == CreateElement(d, "p")
                         d2 == CloneTree(d1, d1, childNode, np)
                         d3 == ReplaceChild(d2, node, np, childNode)
                     IN  WrapPhrasing(d3, node, nextSibling, np)
                ELSE WrapPhrasing(d, node, nextSibling, p)
           ELSE IF p # 0
                THEN WrapPhrasing(TrimTrailingWhitespace(d, p), node, nextSibling, 0)
                ELSE WrapPhrasing(d, node, nextSibling, 0)

\* the end of the handling of a <div> that is kept, the phrasing content of
\* the div being in paragraphs: returns the tree, the node the walk continues
\* from, and whether that node is added to elementsToScore
DivOrParagraph(d1, node) ==
  IF hasSingleTagInsideElement(d1, node, "p") /\ DensityLess(getLinkDensity(d1, node), 1, 4)
  THEN [d |-> ReplaceChild(d1, d1[node].parent, Children(d1, node)[1], node),
        node |-> Children(d1, node)[1], score |-> TRUE]
  ELSE IF ~hasChildBlockElement(d1, node)
  THEN [d |-> setNodeTag(d1, node, "p"), node |-> node, score |-> TRUE]
  ELSE [d |-> d1, node |-> node, score |-> FALSE]

\* the handling of a <div> that is kept
TurnDivIntoP(d, node) == DivOrParagraph(WrapPhrasing(d, node, FirstChild(d, node), 0), node)

\* the end of an iteration for a node that is kept: t is what became of the
\* node (TurnDivIntoP for a <div>)
KeepNode(cfg, st0, node, nodeTagName, t) ==
  [st |-> [st0 EXCEPT
             !.d = t.d,
             !.elementsToScore =
                (IF Contains(cfg.TagsToScore, nodeTagName) THEN Append(@, node) ELSE @)
                \o (IF t.score THEN << t.node >> ELSE << >>)],
   node |-> getNextNode(t.d, t.node, FALSE)]

\* one iteration of the loop `for node != nil` of grabArticle.  st is the
\* state the loop updates:
\*   d                        the working clone
\*   articleByline, articleLang   (fields of the Parser)
\*   elementsToScore, shouldRemoveTitleHeader
\*   bylined                  history: the nodes checkByline returned true for
\* Returns the state and the node of the next iteration
PrepNode(cfg, flags, articleTitle, st, node) ==
  LET d == st.d
      matchString == ClassName(d, node) \o ID(d, node)
      st0 == IF TagName(d, node) = "html"
             THEN [st EXCEPT !.articleLang = GetAttribute(d, node, "lang")] ELSE st
      nodeTagName == TagName(d, node)
      role == GetAttribute(d, node, "role")
      \* node = ps.removeAndGetNext(node); continue
      removed(s1) == [st |-> [s1 EXCEPT !.d = removeAndGetNext(d, node).d],
                      node |-> removeAndGetNext(d, node).next]
  IN  IF \/ ~isProbablyVisible(d, node)
         \/ /\ GetAttribute(d, node, "aria-modal") = << "true" >>
            /\ GetAttribute(d, node, "role") = << "dialog" >>
      THEN removed(st0)
      ELSE IF checkByline(d, node, matchString, st0.articleByline)
      THEN removed([st0 EXCEPT
                      !.articleByline = bylineText(d, node),
                      !.bylined = Append(@, [node |-> node, d |-> d,
                                             before |-> st0.articleByline])])
      ELSE IF st0.shouldRemoveTitleHeader /\ headerDuplicatesTitle(d, node, articleTitle)
      THEN removed([st0 EXCEPT !.shouldRemoveTitleHeader = FALSE])
      ELSE IF \/ /\ flags.stripUnlikelys
                 /\ IsUnlikelyCandidates(matchString)
                 /\ ~MaybeItsACandidate(matchString)
                 /\ ~hasAncestorTag(d, node, "table", 3, FALSE)
                 /\ ~hasAncestorTag(d, node, "code", 3, FALSE)
                 /\ nodeTagName # "body" /\ nodeTagName # "a"
              \/ flags.stripUnlikelys /\ Len(role) = 1 /\ role[1] \in unlikelyRoles
              \/ /\ nodeTagName \in
                      {"div", "section", "header", "h1", "h2", "h3", "h4", "h5", "h6"}
                 /\ isElementWithoutContent(d, node)
      THEN removed(st0)
      ELSE KeepNode(cfg, st0, node, nodeTagName,
                    IF nodeTagName = "div" THEN TurnDivIntoP(d, node)
                    ELSE [d |-> d, node |-> node, score |-> FALSE])

RECURSIVE PrepWalk(_, _, _, _)
\* the loop `for node != nil` of grabArticle; r is the state of the loop and
\* the node of the iteration
PrepWalk(cfg, flags, articleTitle, r) ==
  IF r.node = 0 THEN r.st
  ELSE PrepWalk(cfg, flags, articleTitle, PrepNode(cfg, flags, articleTitle, r.st, r.node))

(***************************************************************************)
(* grabArticle, second part: scoring (parser.go 904-1000)                  *)
(***************************************************************************)
Min(a, b) == IF a < b THEN a ELSE b

Max(a, b) == IF a > b THEN a ELSE b

scoreDivider(level) == IF level = 0 THEN 1 ELSE IF level = 1 THEN 2 ELSE level * 3

RECURSIVE ScoreAncestors(_, _, _, _, _)
\* the callback over the ancestors of one element; acc = [d, candidates]
ScoreAncestors(flags, acc, ancestors, level, contentScore) ==
  IF level >= Len(ancestors) THEN acc
  ELSE
    LET d == acc.d
        ancestor == ancestors[level + 1]
    IN  IF TagName(d, ancestor) = "" \/ d[ancestor].parent = 0
           \/ d[d[ancestor].parent].type # "elem"
        THEN ScoreAncestors(flags, acc, ancestors, level + 1, contentScore)
        ELSE
          LET fresh == ~hasContentScore(d, ancestor)
              d1 == IF fresh THEN initializeNode(d, ancestor, flags) ELSE d
              cands == IF fresh THEN Append(acc.candidates, ancestor) ELSE acc.candidates
              ancestorScore == getContentScore(d1, ancestor)
                               + RoundDiv(contentScore * ScoreScale, scoreDivider(level))
          IN  ScoreAncestors(flags,
                             [d |-> setContentScore(d1, ancestor, ancestorScore),
                              candidates |-> cands],
                             ancestors, level + 1, contentScore)

RECURSIVE ScoreElements(_, _, _, _)
\* ps.forEachNode(elementsToScore, ...); acc = [d, candidates]
ScoreElements(flags, acc, elementsToScore, i) ==
  IF i > Len(elementsToScore) THEN acc
  ELSE
    LET d == acc.d
        e == elementsToScore[i]
        innerText == getInnerText(d, e, TRUE)
        ancestors == getNodeAncestors(d, e, 5)
        contentScore == 1 + CountCommas(innerText) + Min(charCount(innerText) \div 100, 3)
    IN  IF d[e].parent = 0 \/ TagName(d, d[e].parent) = ""
        THEN ScoreElements(flags, acc, elementsToScore, i + 1)
        ELSE IF charCount(innerText) < 25
        THEN ScoreElements(flags, acc, elementsToScore, i + 1)
        ELSE IF Len(ancestors) = 0
        THEN ScoreElements(flags, acc, elementsToScore, i + 1)
        ELSE ScoreElements(flags, ScoreAncestors(flags, acc, ancestors, 0, contentScore),
                           elementsToScore, i + 1)

RECURSIVE ScaleByLinkDensity(_, _, _)
ScaleByLinkDensity(d, candidates, i) ==
  IF i > Len(candidates) THEN d
  ELSE LET candidateScore(ld) ==
             RoundDiv(getContentScore(d, candidates[i]) * (ld.den - ld.num), ld.den)
       IN  ScaleByLinkDensity(
             setContentScore(d, candidates[i], candidateScore(getLinkDensity(d, candidates[i]))),
             candidates, i + 1)

RECURSIVE InsertByKey(_, _)
\* insertion of x into the list sorted by decreasing key, after the entries
\* with an equal key
InsertByKey(sorted, x) ==
  IF sorted = << >> THEN << x >>
  ELSE IF x.key > Head(sorted).key THEN << x >> \o sorted
  ELSE << Head(sorted) >> \o InsertByKey(Tail(sorted), x)

RECURSIVE SortByKey(_)
\* sort.Slice(list, key[i] > key[j]) of a list of records with a field key:
\* a slice of at most 12 entries is sorted by insertion, which keeps the
\* entries with equal keys in their order
SortByKey(list) ==
  IF list = << >> THEN << >>
  ELSE InsertByKey(SortByKey(SubSeq(list, 1, Len(list) - 1)), list[Len(list)])

(***************************************************************************)
(* grabArticle, third part: the top candidate (parser.go 989-1101)         *)
(***************************************************************************)
RECURSIVE MoveChildNodes(_, _, _)
\* for from.FirstChild != nil { dom.AppendChild(to, from.FirstChild) }
MoveChildNodes(d, from, to) ==
  IF FirstChild(d, from) = 0 THEN d
  ELSE MoveChildNodes(AppendChild(d, to, FirstChild(d, from)), from, to)

\* getContentScore(x) / getContentScore(top) >= 0.75 in floating point: a
\* division by zero gives an infinity or, for 0 / 0, a NaN that compares false
ScoreRatioAtLeast75(x, top) ==
  IF top > 0 THEN 4 * x >= 3 * top
  ELSE IF top < 0 THEN 4 * x <= 3 * top
  ELSE x > 0

RECURSIVE CommonAncestor(_, _, _)
\* the walk up from parentOfTopCandidate to the first ancestor found in at
\* least minimumTopCandidates (3) of the ancestor lists; 0 when there is none
CommonAncestor(d, parentOfTopCandidate, alternativeCandidateAncestors) ==
  IF parentOfTopCandidate = 0 \/ TagName(d, parentOfTopCandidate) = "body" THEN 0
  ELSE IF Cardinality({i \in DOMAIN alternativeCandidateAncestors :
                         \E j \in DOMAIN alternativeCandidateAncestors[i] :
                            alternativeCandidateAncestors[i][j] = parentOfTopCandidate}) >= 3
  THEN parentOfTopCandidate
  ELSE CommonAncestor(d, d[parentOfTopCandidate].parent, alternativeCandidateAncestors)

RECURSIVE BetterParent(_, _, _, _, _)
\* the walk up the scored ancestors of the top candidate; returns the new
\* top candidate
BetterParent(d, topCandidate, parentOfTopCandidate, lastScore, firstScore) ==
  IF parentOfTopCandidate = 0 \/ TagName(d, parentOfTopCandidate) = "body" THEN topCandidate
  ELSE IF ~hasContentScore(d, parentOfTopCandidate)
  THEN BetterParent(d, topCandidate, d[parentOfTopCandidate].parent, lastScore, firstScore)
  ELSE LET parentScore == getContentScore(d, parentOfTopCandidate)
       IN  IF 3 * parentScore < firstScore THEN topCandidate
           ELSE IF parentScore > lastScore THEN parentOfTopCandidate
           ELSE BetterParent(d, topCandidate, d[parentOfTopCandidate].parent,
                             parentScore, firstScore)

RECURSIVE OnlyChildParent(_, _)
OnlyChildParent(d, topCandidate) ==
  LET parentOfTopCandidate == d[topCandidate].parent
  IN  IF parentOfTopCandidate # 0 /\ TagName(d, parentOfTopCandidate) # "body"
         /\ Len(Children(d, parentOfTopCandidate)) = 1
      THEN OnlyChildParent(d, parentOfTopCandidate)
      ELSE topCandidate

\* the candidates by decreasing score, at most NTopCandidates of them
topCandidatesOf(cfg, d, candidates) ==
  LET sorted == SortByKey([i \in DOMAIN candidates |->
                  [node |-> candidates[i], key |-> getContentScore(d, candidates[i])]])
  IN  IF Len(sorted) > cfg.NTopCandidates THEN SubSeq(sorted, 1, cfg.NTopCandidates)
      ELSE sorted

\* there is no top candidate, or it is the body: the children of the page
\* move into a new <div>, which is the top candidate
createTopCandidate(flags, d, page) ==
  [d |-> initializeNode(
           AppendChild(MoveChildNodes(CreateElement(d, "div"), page, Len(d) + 1),
                       page, Len(d) + 1),
           Len(d) + 1, flags),
   topCandidate |-> Len(d) + 1,
   neededToCreateTopCandidate |-> TRUE]

\* the ancestor that at least three of the alternative candidates share, or
\* the first of the top candidates
alternativeTopCandidate(d, topCandidates) ==
  LET first == topCandidates[1].node
      alternatives == SelectSeq(Tail(topCandidates),
                        LAMBDA c : ScoreRatioAtLeast75(c.key, getContentScore(d, first)))
      alternativeCandidateAncestors ==
        [i \in DOMAIN alternatives |-> getNodeAncestors(d, alternatives[i].node, 0)]
      orFirst(common) == IF common # 0 THEN common ELSE first
  IN  orFirst(IF Len(alternativeCandidateAncestors) >= 3
              THEN CommonAncestor(d, d[first].parent, alternativeCandidateAncestors)
              ELSE 0)

\* the top candidate found among the candidates: the walks up its parents
findTopCandidate(flags, d, topCandidate) ==
  LET initialized(dd, n) == IF ~hasContentScore(dd, n) THEN initializeNode(dd, n, flags)
                            ELSE dd
      found(d1, tc) == [d |-> initialized(d1, tc), topCandidate |-> tc,
                        neededToCreateTopCandidate |-> FALSE]
      climb(d1) == found(d1, OnlyChildParent(d1,
                           BetterParent(d1, topCandidate, d1[topCandidate].parent,
                                        getContentScore(d1, topCandidate),
                                        getContentScore(d1, topCandidate))))
  IN  climb(initialized(d, topCandidate))

\* the choice between the two, from the sorted candidates
chooseTopCandidate(flags, d, topCandidates, page) ==
  IF Len(topCandidates) = 0 \/ TagName(d, topCandidates[1].node) = "body"
  THEN createTopCandidate(flags, d, page)
  ELSE findTopCandidate(flags, d, alternativeTopCandidate(d, topCandidates))

\* returns [d, topCandidate, neededToCreateTopCandidate]
SelectTopCandidate(cfg, flags, d, candidates, page) ==
  chooseTopCandidate(flags, d, topCandidatesOf(cfg, d, candidates), page)

(***************************************************************************)
(* grabArticle, fourth part: the siblings (parser.go 1103-1160)            *)
(***************************************************************************)
\* whether the sibling is appended to the article content
appendSibling(d, sibling, topCandidate) ==
  LET topCandidateScore == getContentScore(d, topCandidate)
      topCandidateClassName == ClassName(d, topCandidate)
      \* thresholds and bonus are multiples of 0.2: compared times five
      siblingScoreThreshold5 == Max(50 * ScoreScale, topCandidateScore)
      contentBonus5 == IF ClassName(d, sibling) = topCandidateClassName
                          /\ topCandidateClassName # << >>
                       THEN topCandidateScore ELSE 0
      linkDensity == getLinkDensity(d, sibling)
      nodeContent == getInnerText(d, sibling, TRUE)
      nodeLength == charCount(nodeContent)
  IN  IF sibling = topCandidate THEN TRUE
      ELSE IF hasContentScore(d, sibling)
              /\ 5 * getContentScore(d, sibling) + contentBonus5 >= siblingScoreThreshold5
      THEN TRUE
      ELSE IF TagName(d, sibling) = "p"
      THEN \/ nodeLength > 80 /\ DensityLess(linkDensity, 1, 4)
           \/ nodeLength < 80 /\ nodeLength > 0 /\ linkDensity.num = 0
              /\ rxSentencePeriod(nodeContent)
      ELSE FALSE

RECURSIVE AppendSiblings(_, _, _, _, _)
AppendSiblings(d, siblings, s, topCandidate, articleContent) ==
  IF s > Len(siblings) THEN d
  ELSE LET sibling == siblings[s]
       IN  IF appendSibling(d, sibling, topCandidate)
           THEN LET d1 == IF TagName(d, sibling) \notin alterToDivExceptions
                          THEN setNodeTag(d, sibling, "div") ELSE d
                IN  AppendSiblings(AppendChild(d1, articleContent, sibling),
                                   siblings, s + 1, topCandidate, articleContent)
           ELSE AppendSiblings(d, siblings, s + 1, topCandidate, articleContent)

(***************************************************************************)
(* prepArticle and its cleaners (parser.go 533-624, 1679-2132)             *)
(***************************************************************************)
RECURSIVE cleanStyles(_, _)
RECURSIVE cleanStylesOf(_, _)
cleanStyles(d, n) ==
  IF TagName(d, n) = "svg" THEN d
  ELSE LET d1 == [d EXCEPT ![n].attrs =
                     [x \in (DOMAIN @) \ (presentationalAttributes \cup
                         (IF TagName(d, n) \in deprecatedSizeAttributeElems
                          THEN {"width", "height"} ELSE {})) |-> @[x]]]
       IN  cleanStylesOf(d1, Children(d1, n))

cleanStylesOf(d, ks) ==
  IF ks = << >> \/ d = << >> THEN d ELSE cleanStylesOf(cleanStyles(d, Head(ks)), Tail(ks))

\* strconv.Atoi of a rowspan / colspan value (0 when it is no number)
Atoi(v) == IF v = << "2" >> THEN 2 ELSE IF v = << "3" >> THEN 3 ELSE 0

\* getRowAndColumnCount
getRowAndColumnCount(d, table) ==
  LET trs == GetElementsByTagName(d, table, "tr")
      span(n, k) == IF Atoi(GetAttribute(d, n, k)) = 0 THEN 1 ELSE Atoi(GetAttribute(d, n, k))
      columnsIn(tr) == LET cells == GetElementsByTagName(d, tr, "td")
                       IN  SumSeq([j \in DOMAIN cells |-> span(cells[j], "colspan")])
      RECURSIVE MaxColumns(_)
      MaxColumns(i) == IF i > Len(trs) THEN 0 ELSE Max(columnsIn(trs[i]), MaxColumns(i + 1))
  IN  [rows |-> SumSeq([i \in DOMAIN trs |-> span(trs[i], "rowspan")]),
       columns |-> MaxColumns(1)]

\* the decision of markDataTables for one table: "data", "layout" or "none"
dataTableKind(d, table) ==
  LET captions == GetElementsByTagName(d, table, "caption")
      rc == getRowAndColumnCount(d, table)
  IN  IF GetAttribute(d, table, "role") = << "presentation" >> THEN "layout"
      ELSE IF GetAttribute(d, table, "datatable") = << "0" >> THEN "layout"
      ELSE IF HasAttribute(d, table, "summary") THEN "data"
      ELSE IF Len(captions) > 0 /\ Len(ChildNodes(d, captions[1])) > 0 THEN "data"
      ELSE IF \E t \in {"col", "colgroup", "tfoot", "thead", "th"} :
                 Len(GetElementsByTagName(d, table, t)) > 0 THEN "data"
      ELSE IF Len(GetElementsByTagName(d, table, "table")) > 0 THEN "layout"
      ELSE IF rc.rows >= 10 \/ rc.columns > 4 THEN "data"
      ELSE IF rc.rows * rc.columns > 10 THEN "data"
      ELSE "none"

RECURSIVE markTables(_, _, _)
markTables(d, tables, i) ==
  IF i > Len(tables) THEN d
  ELSE LET kind == dataTableKind(d, tables[i])
       IN  markTables(IF kind = "data" THEN setReadabilityDataTable(d, tables[i], TRUE)
                      ELSE IF kind = "layout" THEN setReadabilityDataTable(d, tables[i], FALSE)
                      ELSE d,
                      tables, i + 1)

markDataTables(d, root) == markTables(d, GetElementsByTagName(d, root, "table"), 1)

\* getAllNodesWithTag(node, tags...): the lists of the tags, one after another
RECURSIVE getAllNodesWithTag(_, _, _)
getAllNodesWithTag(d, n, tagNames) ==
  IF tagNames = << >> THEN << >>
  ELSE GetElementsByTagName(d, n, Head(tagNames)) \o getAllNodesWithTag(d, n, Tail(tagNames))

\* an attribute of the element, or for <object> of an element below it,
\* matches the video pattern (the score a node carries never does)
matchesVideo(d, element, deep) ==
  LET own(n) == \E k \in DOMAIN d[n].attrs :
                   k # "data-readability-score" /\ rxVideos(d[n].attrs[k])
      below == Descendants(d, d[element].kids)
  IN  own(element) \/ (deep /\ \E i \in DOMAIN below : own(below[i]))

\* the filter of clean(node, tag)
cleanFilter(d, element, tag) ==
  ~(tag \in {"object", "embed", "iframe"}
    /\ matchesVideo(d, element, TagName(d, element) = "object"))

\* isList of cleanConditionally: the tag is a list, or more than 0.9 of the
\* text of the node is in lists
isListNode(d, node, tag) ==
  LET listNodes == getAllNodesWithTag(d, node, << "ul", "ol" >>)
      listLength == SumSeq([i \in DOMAIN listNodes |->
                              charCount(getInnerText(d, listNodes[i], TRUE))])
      nodeLength == charCount(getInnerText(d, node, TRUE))
  IN  tag \in {"ul", "ol"} \/ (nodeLength > 0 /\ 10 * listLength > 9 * nodeLength)

\* haveToRemove without its test of the inputs
haveToRemoveButInputs(isList, weight, p, img, li, input, headingDensity, embedCount, linkDensity, contentLength, inFigure) ==
  \/ img > 1 /\ 2 * p < img /\ ~inFigure
  \/ ~isList /\ li > p
  \/ ~isList /\ DensityLess(headingDensity, 9, 10) /\ contentLength < 25
     /\ (img = 0 \/ img > 2) /\ ~inFigure
  \/ ~isList /\ weight < 25 /\ DensityMore(linkDensity, 1, 5)
  \/ weight >= 25 /\ DensityMore(linkDensity, 1, 2)
  \/ (embedCount = 1 /\ contentLength < 75) \/ embedCount > 1

\* haveToRemove of cleanConditionally, from the measurements of the node
haveToRemove(isList, weight, p, img, li, input, headingDensity, embedCount, linkDensity, contentLength, inFigure) ==
  \/ img > 1 /\ 2 * p < img /\ ~inFigure
  \/ ~isList /\ li > p
  \/ input > p \div 3
  \/ ~isList /\ DensityLess(headingDensity, 9, 10) /\ contentLength < 25
     /\ (img = 0 \/ img > 2) /\ ~inFigure
  \/ ~isList /\ weight < 25 /\ DensityMore(linkDensity, 1, 5)
  \/ weight >= 25 /\ DensityMore(linkDensity, 1, 2)
  \/ (embedCount = 1 /\ contentLength < 75) \/ embedCount > 1

\* the end of the filter: a list that has to be removed is kept when it is a
\* plain list of images, one per item
listOfImages(d, node, isList, remove) ==
  IF isList /\ remove
  THEN IF \E i \in DOMAIN Children(d, node) :
             Len(Children(d, Children(d, node)[i])) > 1 THEN TRUE
       ELSE IF Len(GetElementsByTagName(d, node, "img"))
                 = Len(GetElementsByTagName(d, node, "li")) THEN FALSE
       ELSE TRUE
  ELSE remove

\* the measurements of the node, and what they say
measuredFilter(d, node, flags, isList) ==
  listOfImages(d, node, isList,
    haveToRemove(isList,
                 getClassWeight(d, node, flags),
                 Len(GetElementsByTagName(d, node, "p")),
                 Len(GetElementsByTagName(d, node, "img")),
                 Len(GetElementsByTagName(d, node, "li")) - 100,
                 Len(GetElementsByTagName(d, node, "input")),
                 getTextDensity(d, node, {"h1", "h2", "h3", "h4", "h5", "h6"}),
                 Len(getAllNodesWithTag(d, node, << "object", "embed", "iframe" >>)),
                 getLinkDensity(d, node),
                 charCount(getInnerText(d, node, TRUE)),
                 hasAncestorTag(d, node, "figure", 3, FALSE)))

\* the filter without its test of the tables above the node
cleanConditionallyFilterOfOwnMark(d, node, tag, flags) ==
  LET embeds == getAllNodesWithTag(d, node, << "object", "embed", "iframe" >>)
  IN  IF tag = "table" /\ isReadabilityDataTable(d, node) THEN FALSE
      ELSE IF hasAncestorTag(d, node, "code", 3, FALSE) THEN FALSE
      ELSE IF getClassWeight(d, node, flags) < 0 THEN TRUE
      ELSE IF getCharCount(d, node, ",") >= 10 THEN FALSE
      ELSE IF \E i \in DOMAIN embeds :
                 matchesVideo(d, embeds[i], TagName(d, embeds[i]) = "object") THEN FALSE
      ELSE measuredFilter(d, node, flags, isListNode(d, node, tag))

\* the filter of cleanConditionally(element, tag), the flag being on
cleanConditionallyFilter(d, node, tag, flags) ==
  LET embeds == getAllNodesWithTag(d, node, << "object", "embed", "iframe" >>)
  IN  IF tag = "table" /\ isReadabilityDataTable(d, node) THEN FALSE
      ELSE IF hasAncestorTag(d, node, "table", 0 - 1, TRUE) THEN FALSE
      ELSE IF hasAncestorTag(d, node, "code", 3, FALSE) THEN FALSE
      ELSE IF getClassWeight(d, node, flags) < 0 THEN TRUE
      ELSE IF getCharCount(d, node, ",") >= 10 THEN FALSE
      ELSE IF \E i \in DOMAIN embeds :
                 matchesVideo(d, embeds[i], TagName(d, embeds[i]) = "object") THEN FALSE
      ELSE measuredFilter(d, node, flags, isListNode(d, node, tag))

\* the filter of the "remove extra paragraphs" pass
emptyParagraphFilter(d, p) ==
  /\ Len(GetElementsByTagName(d, p, "img")) + Len(GetElementsByTagName(d, p, "embed"))
     + Len(GetElementsByTagName(d, p, "object")) + Len(GetElementsByTagName(d, p, "iframe")) = 0
  /\ getInnerText(d, p, FALSE) = << >>

\* filterFn(node) of removeNodes; kind names the caller's filter ("all": nil)
removeFilter(d, node, kind, tag, flags) ==
  IF kind = "all" THEN TRUE
  ELSE IF kind = "clean" THEN cleanFilter(d, node, tag)
  ELSE IF kind = "cleanConditionally" THEN cleanConditionallyFilter(d, node, tag, flags)
  ELSE IF kind = "cleanHeaders" THEN getClassWeight(d, node, flags) < 0
  ELSE emptyParagraphFilter(d, node)

RECURSIVE removeNodesFrom(_, _, _, _, _, _, _)
RECURSIVE removeNodesStep(_, _, _, _, _, _, _, _)
\* removeNodes(nodeList, filterFn): from the last node to the first; seen
\* lists the calls of filterFn: the node, the tree it was called on, and
\* what it returned
removeNodesFrom(d, nodeList, i, kind, tag, flags, seen) ==
  IF i < 1 THEN [d |-> d, seen |-> seen]
  ELSE IF d[nodeList[i]].parent = 0
  THEN removeNodesFrom(d, nodeList, i - 1, kind, tag, flags, seen)
  ELSE removeNodesStep(d, nodeList, i, kind, tag, flags, seen,
                       removeFilter(d, nodeList[i], kind, tag, flags))

\* the rest of an iteration, remove being what filterFn returned
removeNodesStep(d, nodeList, i, kind, tag, flags, seen, remove) ==
  removeNodesFrom(IF remove THEN RemoveChild(d, nodeList[i]) ELSE d,
                  nodeList, i - 1, kind, tag, flags,
                  Append(seen, [node |-> nodeList[i], d |-> d, remove |-> remove]))

\* removeNodes walking the list from the first node to the last
removeNodesStepsForward(d, nodeList, kind, tag, flags) ==
  removeNodesFrom(d, [i \in DOMAIN nodeList |-> nodeList[Len(nodeList) + 1 - i]],
                  Len(nodeList), kind, tag, flags, << >>)

removeNodesSteps(d, nodeList, kind, tag, flags) ==
  removeNodesFrom(d, nodeList, Len(nodeList), kind, tag, flags, << >>)

removeNodes(d, nodeList, kind, tag, flags) ==
  removeNodesSteps(d, nodeList, kind, tag, flags).d

\* clean(e, tag), with the calls of its filter
cleanSteps(d, e, tag, flags) ==
  removeNodesSteps(d, GetElementsByTagName(d, e, tag), "clean", tag, flags)

clean(d, e, tag, flags) == cleanSteps(d, e, tag, flags).d

\* cleanConditionally(e, tag), with the calls of its filter
cleanConditionallySteps(d, e, tag, flags) ==
  IF ~flags.cleanConditionally THEN [d |-> d, seen |-> << >>]
  ELSE removeNodesSteps(d, GetElementsByTagName(d, e, tag), "cleanConditionally", tag, flags)

cleanConditionally(d, e, tag, flags) == cleanConditionallySteps(d, e, tag, flags).d

cleanHeaders(d, e, flags) ==
  removeNodes(d, getAllNodesWithTag(d, e, << "h1", "h2" >>), "cleanHeaders", "", flags)

RECURSIVE cleanMatchedFrom(_, _, _, _)
\* the loop of cleanMatchedNodes with the share-element filter of prepArticle
cleanMatchedFrom(d, next, endOfSearchMarkerNode, shareElementThreshold) ==
  IF next = 0 \/ next = endOfSearchMarkerNode THEN d
  ELSE IF rxShareElements(ClassName(d, next) \o ID(d, next))
          /\ charCount(TextContent(d, next)) < shareElementThreshold
  THEN LET rm == removeAndGetNext(d, next)
       IN  cleanMatchedFrom(rm.d, rm.next, endOfSearchMarkerNode, shareElementThreshold)
  ELSE cleanMatchedFrom(d, getNextNode(d, next, FALSE), endOfSearchMarkerNode,
                        shareElementThreshold)

cleanMatchedNodes(d, e, shareElementThreshold) ==
  cleanMatchedFrom(d, getNextNode(d, e, FALSE), getNextNode(d, e, TRUE), shareElementThreshold)

RECURSIVE cleanShareElements(_, _, _, _)
cleanShareElements(d, topCandidates, i, shareElementThreshold) ==
  IF i > Len(topCandidates) \/ d = << >> THEN d
  ELSE cleanShareElements(cleanMatchedNodes(d, topCandidates[i], shareElementThreshold),
                          topCandidates, i + 1, shareElementThreshold)

RECURSIVE replaceNodeTags(_, _, _)
replaceNodeTags(d, nodeList, newTagName) ==
  IF nodeList = << >> \/ d = << >> THEN d
  ELSE replaceNodeTags(setNodeTag(d, nodeList[Len(nodeList)], newTagName),
                       SubSeq(nodeList, 1, Len(nodeList) - 1), newTagName)

RECURSIVE nextNode(_, _)
\* nextNode: the next element, or text that is not white space, from n on
nextNode(d, n) ==
  IF n # 0 /\ d[n].type # "elem" /\ rxWhitespace(TextContent(d, n))
  THEN nextNode(d, NextSibling(d, n)) ELSE n

RECURSIVE removeBrBeforeP(_, _, _)
removeBrBeforeP(d, brs, i) ==
  IF i > Len(brs) THEN d
  ELSE LET next == nextNode(d, NextSibling(d, brs[i]))
       IN  removeBrBeforeP(IF next # 0 /\ TagName(d, next) = "p"
                           THEN RemoveChild(d, brs[i]) ELSE d,
                           brs, i + 1)

RECURSIVE unwrapSingleCellTables(_, _, _)
unwrapSingleCellTables(d, tables, i) ==
  IF i > Len(tables) THEN d
  ELSE
    LET table == tables[i]
        tbody == IF hasSingleTagInsideElement(d, table, "tbody")
                 THEN FirstElementChild(d, table) ELSE table
        row == FirstElementChild(d, tbody)
        cell == FirstElementChild(d, row)
        newTag == IF \A k \in DOMAIN d[cell].kids : isPhrasingContent(d, d[cell].kids[k])
                  THEN "p" ELSE "div"
    IN  IF hasSingleTagInsideElement(d, tbody, "tr") /\ hasSingleTagInsideElement(d, row, "td")
        THEN unwrapSingleCellTables(
               ReplaceChild(setNodeTag(d, cell, newTag), d[table].parent, cell, table),
               tables, i + 1)
        ELSE unwrapSingleCellTables(d, tables, i + 1)

(***************************************************************************)
(* fixLazyImages (parser.go 1909-1991).  The attribute values that name an *)
(* image are the ones below; an element's attributes are visited in the    *)
(* order of AttrOrder.                                                     *)
(***************************************************************************)
ImageURL == << "http://fakehost/a.jpg" >>

ImageSrcset == << "http://fakehost/a.jpg", "2x" >>

TinyDataURL == << "data:image/gif;base64,R0lGOD" >>

SvgDataURL == << "data:image/svg+xml;base64,PHN2Zz" >>

\* rxB64DataURL  ^data:\s*([^\s;,]+)\s*;\s*base64\s*,
rxB64DataURL(v) == v \in {TinyDataURL, SvgDataURL}

\* rxImgExtensions  \.(jpg|jpeg|png|webp)
rxImgExtensions(v) == v \in {ImageURL, ImageSrcset}

\* rxLazyImageSrcset  \.(jpg|jpeg|png|webp)\s+\d
rxLazyImageSrcset(v) == v = ImageSrcset

\* rxLazyImageSrc  ^\s*\S+\.(jpg|jpeg|png|webp)\S*\s*$
rxLazyImageSrc(v) == v = ImageURL

\* isValidURL: url.ParseRequestURI accepts an absolute URL or a rooted path
isValidURL(v) == v \in {ImageURL, ImageSrcset, << "http://fakehost/x" >>, << "/x" >>}

AttrOrder == << "data-src", "data-srcset", "data-original" >>

RECURSIVE copyLazyAttrs(_, _, _)
\* the loop over elem.Attr of fixLazyImages
copyLazyAttrs(d, elem, i) ==
  IF i > Len(AttrOrder) THEN d
  ELSE
    LET key == AttrOrder[i]
        val == GetAttribute(d, elem, key)
        copyTo == IF rxLazyImageSrcset(val) THEN "srcset"
                  ELSE IF rxLazyImageSrc(val) THEN "src" ELSE ""
        nodeTag == TagName(d, elem)
    IN  IF ~HasAttribute(d, elem, key) \/ copyTo = "" \/ ~isValidURL(val)
        THEN copyLazyAttrs(d, elem, i + 1)
        ELSE IF nodeTag \in {"img", "picture"}
        THEN copyLazyAttrs(SetAttribute(d, elem, copyTo, val), elem, i + 1)
        ELSE IF nodeTag = "figure"
                /\ Len(getAllNodesWithTag(d, elem, << "img", "picture" >>)) = 0
        THEN LET img == Len(d) + 1
                 d1 == SetAttribute(CreateElement(d, "img"), img, copyTo, val)
             IN  copyLazyAttrs(AppendChild(d1, elem, img), elem, i + 1)
        ELSE copyLazyAttrs(d, elem, i + 1)

fixLazyImage(d, elem) ==
  LET src == GetAttribute(d, elem, "src")
      srcset == GetAttribute(d, elem, "srcset")
      nodeClass == ClassName(d, elem)
      isData == src # << >> /\ rxB64DataURL(src)
      srcCouldBeRemoved ==
        \E k \in DOMAIN d[elem].attrs :
           k \notin {"src", "data-readability-score"}
           /\ rxImgExtensions(d[elem].attrs[k]) /\ isValidURL(d[elem].attrs[k])
      \* the base64 payloads of the data URLs above are shorter than 133 bytes
      dropSrc == isData /\ src # SvgDataURL /\ srcCouldBeRemoved
      d1 == IF dropSrc THEN RemoveAttribute(d, elem, "src") ELSE d
      src1 == IF dropSrc THEN << >> ELSE src
  IN  IF isData /\ src = SvgDataURL THEN d
      ELSE IF (src1 # << >> \/ srcset # << >>) /\ ~Contains(nodeClass, "lazy") THEN d1
      ELSE copyLazyAttrs(d1, elem, 1)

RECURSIVE fixLazyImagesOf(_, _, _)
fixLazyImagesOf(d, imageNodes, i) ==
  IF i > Len(imageNodes) \/ d = << >> THEN d
  ELSE fixLazyImagesOf(fixLazyImage(d, imageNodes[i]), imageNodes, i + 1)

fixLazyImages(d, root) ==
  fixLazyImagesOf(d, getAllNodesWithTag(d, root, << "img", "picture", "figure" >>), 1)

\* the tag that a statement of prepArticle cleans
cleanedTag(step) ==
  CASE step = 4 -> "form" [] step = 5 -> "fieldset"
    [] step = 6 -> "object" [] step = 7 -> "embed" [] step = 8 -> "footer"
    [] step = 9 -> "link" [] step = 10 -> "aside"
    [] step = 12 -> "iframe" [] step = 13 -> "input" [] step = 14 -> "textarea"
    [] step = 15 -> "select" [] step = 16 -> "button"
    [] step = 18 -> "table" [] step = 19 -> "ul" [] step = 20 -> "div"
    [] OTHER -> ""

\* the statements of prepArticle, in their order
prepArticleStep(d, articleContent, cfg, flags, step) ==
  CASE step = 1 -> cleanStyles(d, articleContent)
    [] step = 2 -> markDataTables(d, articleContent)
    [] step = 3 -> fixLazyImages(d, articleContent)
    [] step \in {4, 5, 18, 19, 20} ->
         cleanConditionally(d, articleContent, cleanedTag(step), flags)
    [] step \in {6, 7, 8, 9, 10, 12, 13, 14, 15, 16} ->
         clean(d, articleContent, cleanedTag(step), flags)
    [] step = 11 -> cleanShareElements(d, Children(d, articleContent), 1, cfg.CharThresholds)
    [] step = 17 -> cleanHeaders(d, articleContent, flags)
    [] step = 21 -> replaceNodeTags(d, getAllNodesWithTag(d, articleContent, << "h1" >>), "h2")
    [] step = 22 -> removeNodes(d, GetElementsByTagName(d, articleContent, "p"),
                                "emptyParagraph", "", flags)
    [] step = 23 -> removeBrBeforeP(d, GetElementsByTagName(d, articleContent, "br"), 1)
    [] OTHER -> unwrapSingleCellTables(d, GetElementsByTagName(d, articleContent, "table"), 1)

RECURSIVE prepArticleSteps(_, _, _, _, _, _)
\* the statements first..last, one after the other: the first half of them,
\* then the others on the tree the first half leaves
prepArticleSteps(d, articleContent, cfg, flags, first, last) ==
  IF first = last THEN prepArticleStep(d, articleContent, cfg, flags, first)
  ELSE LET mid == (first + last) \div 2
           half == prepArticleSteps(d, articleContent, cfg, flags, first, mid)
       IN  Then(half, prepArticleSteps(half, articleContent, cfg, flags, mid + 1, last))

\* prepArticle(articleContent)
prepArticle(d, articleContent, cfg, flags) ==
  prepArticleSteps(d, articleContent, cfg, flags, 1, 24)

(***************************************************************************)
(* One iteration of the retry loop of grabArticle, up to the measurement   *)
(* of the text length (parser.go 768-1202)                                 *)
(***************************************************************************)
\* the envelope: id and class of the page (parser.go 1166-1192)
envelope(d, articleContent, neededToCreateTopCandidate) ==
  IF neededToCreateTopCandidate
  THEN LET firstChild == FirstElementChild(d, articleContent)
       IN  IF firstChild # 0 /\ TagName(d, firstChild) = "div"
           THEN SetAttribute(SetAttribute(d, firstChild, "id", << "readability-page-1" >>),
                             firstChild, "class", << "page" >>)
           ELSE d
  ELSE LET div == Len(d) + 1
           d1 == CreateElement(d, "div")
           d2 == SetAttribute(d1, div, "id", << "readability-page-1" >>)
           d3 == SetAttribute(d2, div, "class", << "page" >>)
           d4 == MoveChildNodes(d3, articleContent, div)
       IN  AppendChild(d4, articleContent, div)

\* the length of the text as it is, white space and all
measuredLengthRaw(d, articleContent) == charCount(TextContent(d, articleContent))

\* the text length the retry decision uses
measuredLength(d, articleContent) == charCount(getInnerText(d, articleContent, TRUE))

\* doc is the clone of ps.doc the attempt works on.  Returns
\*   page = 0 when the document has no <body> (the program returns nil), else
\*   d, articleContent, textLength and the fields of the Parser it set.
\* The parts of the iteration, from the last to the first: each takes the
\* values the parts before it have computed
grabAttempt(cfg, flags, articleTitle, articleByline, articleLang, doc) ==
  LET bodies == GetElementsByTagName(doc, 1, "body")
      page == IF Len(bodies) > 0 THEN bodies[1] ELSE 0
      \* the text length of the article content
      measured(walked, top, articleContent, d) ==
        Then(d, [page |-> page, d |-> d, articleContent |-> articleContent,
                 textLength |-> measuredLength(d, articleContent),
                 articleByline |-> walked.articleByline,
                 articleLang |-> walked.articleLang,
                 bylined |-> walked.bylined,
                 neededToCreateTopCandidate |-> top.neededToCreateTopCandidate])
      \* the envelope of the article content
      enveloped(walked, top, articleContent, d) ==
        Then(d, measured(walked, top, articleContent,
                         envelope(d, articleContent, top.neededToCreateTopCandidate)))
      \* ps.prepArticle(articleContent)
      prepped(walked, top, articleContent, d) ==
        Then(d, enveloped(walked, top, articleContent,
                          prepArticle(d, articleContent, cfg, flags)))
      \* the siblings of the top candidate, appended to the new article content
      gathered(walked, top, articleContent, d) ==
        prepped(walked, top, articleContent,
                AppendSiblings(d, Children(d, d[top.topCandidate].parent), 1,
                               top.topCandidate, articleContent))
      \* articleContent := dom.CreateElement("div")
      created(walked, top) ==
        Then(top, gathered(walked, top, Len(top.d) + 1, CreateElement(top.d, "div")))
      \* the top candidate
      selected(walked, candidates, d) ==
        Then(d, created(walked, SelectTopCandidate(cfg, flags, d, candidates, page)))
      \* the scores of the candidates, scaled by their link density
      scaled(walked, scored) ==
        Then(scored, selected(walked, scored.candidates,
                              ScaleByLinkDensity(scored.d, scored.candidates, 1)))
      \* the scores of the elements to score
      scored(walked) ==
        Then(walked, scaled(walked, ScoreElements(flags, [d |-> walked.d, candidates |-> << >>],
                                                  walked.elementsToScore, 1)))
  IN  IF page = 0
      THEN [page |-> 0, d |-> doc, articleContent |-> 0, textLength |-> 0,
            articleByline |-> articleByline, articleLang |-> articleLang,
            bylined |-> << >>, neededToCreateTopCandidate |-> FALSE]
      ELSE scored(PrepWalk(cfg, flags, articleTitle,
                           [st |-> [d |-> doc, articleByline |-> articleByline,
                                    articleLang |-> articleLang,
                                    elementsToScore |-> << >>, bylined |-> << >>,
                                    shouldRemoveTitleHeader |-> TRUE],
                            node |-> DocumentElement(doc, 1)]))

(***************************************************************************)
(* Document preparation (parser.go 426-524, 1510-1608, 2211-2233)          *)
(***************************************************************************)
RECURSIVE isSingleImage(_, _)
isSingleImage(d, node) ==
  IF TagName(d, node) = "img" THEN TRUE
  ELSE IF Len(Children(d, node)) # 1 \/ TrimSpace(TextContent(d, node)) # << >> THEN FALSE
  ELSE isSingleImage(d, Children(d, node)[1])

\* the first loop of unwrapNoscriptImages: an <img> is a placeholder when no
\* attribute of it can name an image
isPlaceholderImage(d, img) ==
  \A k \in DOMAIN d[img].attrs :
     k \notin {"src", "data-src", "srcset", "data-srcset"} /\ ~rxImgExtensions(d[img].attrs[k])

\* the text of a <noscript> is markup; the run "I" stands for the markup of
\* one <img src="http://fakehost/a.jpg">, every other character for itself.
\* html.Parse of the text gives a body that is a single image exactly when
\* the text is one such image and white space
noscriptIsSingleImage(d, noscript) ==
  TrimSpace(TextContent(d, noscript)) = << Run("I", 1) >>

\* the name under which an attribute of the old image is kept when the new
\* image has the attribute already
oldAttrName(k) ==
  CASE k = "src" -> "data-old-src"
    [] k = "srcset" -> "data-old-srcset"
    [] k = "data-src" -> "data-old-data-src"
    [] k = "data-srcset" -> "data-old-data-srcset"
    [] OTHER -> "data-old-data-original"

RECURSIVE keepOldAttrs(_, _, _, _)
\* the loop over prevImg.Attr of unwrapNoscriptImages
keepOldAttrs(d, prevImg, newImg, keys) ==
  IF keys = << >> THEN d
  ELSE
    LET k == Head(keys)
        val == GetAttribute(d, prevImg, k)
        attrName == IF HasAttribute(d, newImg, k) THEN oldAttrName(k) ELSE k
    IN  IF ~HasAttribute(d, prevImg, k) \/ val = << >>
           \/ ~(k \in {"src", "srcset"} \/ rxImgExtensions(val))
           \/ GetAttribute(d, newImg, k) = val
        THEN keepOldAttrs(d, prevImg, newImg, Tail(keys))
        ELSE keepOldAttrs(SetAttribute(d, newImg, attrName, val), prevImg, newImg, Tail(keys))

unwrapNoscript(d, noscript) ==
  LET prevElement == PreviousElementSibling(d, noscript)
      prevImg == IF TagName(d, prevElement) # "img"
                 THEN GetElementsByTagName(d, prevElement, "img")[1] ELSE prevElement
      newImg == Len(d) + 1
      d1 == SetAttribute(CreateElement(d, "img"), newImg, "src", ImageURL)
      d2 == keepOldAttrs(d1, prevImg, newImg, << "src", "srcset" >> \o AttrOrder)
  IN  IF ~noscriptIsSingleImage(d, noscript) THEN d
      ELSE IF prevElement # 0 /\ isSingleImage(d, prevElement)
      THEN ReplaceChild(d2, d[noscript].parent, newImg, prevElement)
      ELSE d

RECURSIVE unwrapNoscripts(_, _, _)
unwrapNoscripts(d, noscripts, i) ==
  IF i > Len(noscripts) \/ d = << >> THEN d
  ELSE unwrapNoscripts(unwrapNoscript(d, noscripts[i]), noscripts, i + 1)

RECURSIVE removePlaceholders(_, _, _)
removePlaceholders(d, imgs, i) ==
  IF i > Len(imgs) THEN d
  ELSE removePlaceholders(IF isPlaceholderImage(d, imgs[i]) THEN RemoveChild(d, imgs[i]) ELSE d,
                          imgs, i + 1)

unwrapNoscriptImages(d, doc) ==
  LET second(d1) == Then(d1, unwrapNoscripts(d1, GetElementsByTagName(d1, doc, "noscript"), 1))
  IN  second(removePlaceholders(d, GetElementsByTagName(d, doc, "img"), 1))

\* removeScripts leaving the <noscript> elements
removeScriptsOnly(d, doc) ==
  removeNodes(d, getAllNodesWithTag(d, doc, << "script" >>), "all", "", {})

removeScripts(d, doc) ==
  removeNodes(d, getAllNodesWithTag(d, doc, << "script", "noscript" >>), "all", "", {})

removeComments(d, doc) ==
  removeNodes(d, SelectSeq(Tail(AllNodes(d, doc)), LAMBDA n : d[n].type = "comment"),
              "all", "", {})

RECURSIVE fillParagraphPastBrs(_, _, _)
\* the second loop of replaceBrs without its test of the next <br> chain
fillParagraphPastBrs(d, p, next) ==
  IF next = 0 THEN d
  ELSE IF ~isPhrasingContent(d, next) THEN d
  ELSE fillParagraphPastBrs(AppendChild(d, p, next), p, NextSibling(d, next))

RECURSIVE removeBrChain(_, _)
\* replaceBrs, first loop: removes the <br>s that follow, white space
\* ignored; returns the tree and whether one was removed
removeBrChain(acc, next) ==
  LET n == nextNode(acc.d, next)
  IN  IF n = 0 \/ TagName(acc.d, n) # "br" THEN acc
      ELSE removeBrChain([d |-> RemoveChild(acc.d, n), replaced |-> TRUE],
                         NextSibling(acc.d, n))

RECURSIVE fillParagraph(_, _, _)
\* replaceBrs, second loop: the siblings after p become children of p until
\* the next <br> chain or content that is not phrasing content
fillParagraph(d, p, next) ==
  IF next = 0 THEN d
  ELSE LET nextElem == nextNode(d, NextSibling(d, next))
       IN  IF TagName(d, next) = "br" /\ nextElem # 0 /\ TagName(d, nextElem) = "br" THEN d
           ELSE IF ~isPhrasingContent(d, next) THEN d
           ELSE fillParagraph(AppendChild(d, p, next), p, NextSibling(d, next))

replaceBr(d, br) ==
  LET \* a paragraph in a paragraph: the outer one becomes a <div>
      parentAsDiv(d3, p) ==
        IF TagName(d3, d3[p].parent) = "p" THEN setNodeTag(d3, d3[p].parent, "div") ELSE d3
      \* the new paragraph p takes the siblings that follow it
      filled(d1, p) ==
        parentAsDiv(TrimTrailingWhitespace(fillParagraph(d1, p, NextSibling(d1, p)), p), p)
      \* a chain of <br>s was removed: a <p> replaces the first <br>
      replaced(chain) ==
        IF ~chain.replaced THEN chain.d
        ELSE filled(ReplaceChild(CreateElement(chain.d, "p"), chain.d[br].parent,
                                 Len(chain.d) + 1, br),
                    Len(chain.d) + 1)
  IN  replaced(removeBrChain([d |-> d, replaced |-> FALSE], NextSibling(d, br)))

RECURSIVE replaceBrsOf(_, _, _)
replaceBrsOf(d, brs, i) ==
  IF i > Len(brs) \/ d = << >> THEN d ELSE replaceBrsOf(replaceBr(d, brs[i]), brs, i + 1)

replaceBrs(d, elem) == replaceBrsOf(d, getAllNodesWithTag(d, elem, << "br" >>), 1)

\* the statements of prepDocument, from the last to the first: each takes
\* the tree the statements before it leave
prepDocument(d, doc) ==
  LET fonts(d3) ==
        Then(d3, replaceNodeTags(d3, GetElementsByTagName(d3, doc, "font"), "span"))
      brs(d2) ==
        Then(d2, fonts(IF Len(GetElementsByTagName(d2, doc, "body")) > 0
                       THEN replaceBrs(d2, GetElementsByTagName(d2, doc, "body")[1])
                       ELSE d2))
      styles(d1) ==
        Then(d1, brs(removeNodes(d1, GetElementsByTagName(d1, doc, "style"), "all", "", {})))
  IN  styles(removeComments(d, doc))

(***************************************************************************)
(* Post-processing (parser.go 146-161, 232-349, 2284-2293; utils.go 67-97) *)
(* A URI is an attribute value of one token.  NoBase is the nil base URL;  *)
(* BaseURL stands for http://fakehost/dir/page.                            *)
(***************************************************************************)
NoBase == "nil"

BaseURL == "http://fakehost/dir/page"

HashURI == << "#frag" >>

AbsoluteURI == << "http://fakehost/x" >>

RootedURI == << "/x" >>

RelativeURI == << "x" >>

SchemeRelativeURI == << "//other/x" >>

JavascriptURI == << "javascript:void(0)" >>

\* a URI with an invalid escape: url.Parse fails on it
BadURI == << "%zz" >>

MixedCaseJavascriptURI == << "JavaScript:void(0)" >>

DotRelativeURI == << "../x" >>

\* a second base, whose path is "/"
OtherBaseURL == "https://other/"

\* the base of Test_toAbsoluteURI
TestBaseURL == "http://localhost:8080/absolute/"

\* a *url.URL: Path is the sequence of its segments ("/" has the one empty
\* segment, "" has none), rooted tells whether it begins with "/"
URL(scheme, host, rooted, path) ==
  [Scheme |-> scheme, Host |-> host, rooted |-> rooted, Path |-> path, Opaque |-> "",
   Fragment |-> ""]

OpaqueURL(scheme, opaque) ==
  [Scheme |-> scheme, Host |-> "", rooted |-> FALSE, Path |-> << >>, Opaque |-> opaque,
   Fragment |-> ""]

\* the URIs of the model as url.Parse reads them (it lower-cases the scheme)
\* and as URL.String writes them: of two strings that parse alike, String
\* gives the first
URIForms ==
  << [str |-> "http://fakehost/x", url |-> URL("http", "fakehost", TRUE, << "x" >>)],
     [str |-> "http://fakehost/a.jpg", url |-> URL("http", "fakehost", TRUE, << "a.jpg" >>)],
     [str |-> "http://fakehost/dir/x", url |-> URL("http", "fakehost", TRUE, << "dir", "x" >>)],
     [str |-> "http://fakehost/dir/page",
      url |-> URL("http", "fakehost", TRUE, << "dir", "page" >>)],
     [str |-> "http://fakehost/icon.png",
      url |-> URL("http", "fakehost", TRUE, << "icon.png" >>)],
     [str |-> "http://fakehost/icon-64x64.png",
      url |-> URL("http", "fakehost", TRUE, << "icon-64x64.png" >>)],
     [str |-> "http://other/x", url |-> URL("http", "other", TRUE, << "x" >>)],
     [str |-> "https://other/x", url |-> URL("https", "other", TRUE, << "x" >>)],
     [str |-> "https://other/", url |-> URL("https", "other", TRUE, << "" >>)],
     [str |-> "https://other/icon.png", url |-> URL("https", "other", TRUE, << "icon.png" >>)],
     [str |-> "https://other/icon-64x64.png",
      url |-> URL("https", "other", TRUE, << "icon-64x64.png" >>)],
     [str |-> "http://www.youtube.com/embed/x",
      url |-> URL("http", "www.youtube.com", TRUE, << "embed", "x" >>)],
     [str |-> "https://www.youtube.com/embed/x",
      url |-> URL("https", "www.youtube.com", TRUE, << "embed", "x" >>)],
     [str |-> "javascript:void(0)", url |-> OpaqueURL("javascript", "void(0)")],
     [str |-> "JavaScript:void(0)", url |-> OpaqueURL("javascript", "void(0)")],
     [str |-> "/x", url |-> URL("", "", TRUE, << "x" >>)],
     [str |-> "x", url |-> URL("", "", FALSE, << "x" >>)],
     [str |-> "../x", url |-> URL("", "", FALSE, << "..", "x" >>)],
     [str |-> "//other/x", url |-> URL("", "other", TRUE, << "x" >>)],
     [str |-> "//www.youtube.com/embed/x",
      url |-> URL("", "www.youtube.com", TRUE, << "embed", "x" >>)],
     [str |-> "/icon.png", url |-> URL("", "", TRUE, << "icon.png" >>)],
     [str |-> "/icon-64x64.png", url |-> URL("", "", TRUE, << "icon-64x64.png" >>)],
     [str |-> "#frag", url |-> [URL("", "", FALSE, << >>) EXCEPT !.Fragment = "frag"]],
     [str |-> "http://fakehost/dir/page#frag",
      url |-> [URL("http", "fakehost", TRUE, << "dir", "page" >>) EXCEPT !.Fragment = "frag"]],
     [str |-> "https://other/#frag",
      url |-> [URL("https", "other", TRUE, << "" >>) EXCEPT !.Fragment = "frag"]],
     [str |-> "http://localhost:8080/absolute/",
      url |-> URL("http", "localhost:8080", TRUE, << "absolute", "" >>)],
     [str |-> "#here", url |-> [URL("", "", FALSE, << >>) EXCEPT !.Fragment = "here"]],
     [str |-> "http://localhost:8080/absolute/#here",
      url |-> [URL("http", "localhost:8080", TRUE, << "absolute", "" >>)
                 EXCEPT !.Fragment = "here"]],
     [str |-> "/test/123", url |-> URL("", "", TRUE, << "test", "123" >>)],
     [str |-> "test/123", url |-> URL("", "", FALSE, << "test", "123" >>)],
     [str |-> "http://localhost:8080/test/123",
      url |-> URL("http", "localhost:8080", TRUE, << "test", "123" >>)],
     [str |-> "http://localhost:8080/absolute/test/123",
      url |-> URL("http", "localhost:8080", TRUE, << "absolute", "test", "123" >>)],
     [str |-> "//www.google.com", url |-> URL("", "www.google.com", FALSE, << >>)],
     [str |-> "http://www.google.com", url |-> URL("http", "www.google.com", FALSE, << >>)],
     [str |-> "https://www.google.com", url |-> URL("https", "www.google.com", FALSE, << >>)],
     [str |-> "ftp://ftp.server.com", url |-> URL("ftp", "ftp.server.com", FALSE, << >>)],
     [str |-> "www.google.com", url |-> URL("", "", FALSE, << "www.google.com" >>)],
     [str |-> "http://localhost:8080/absolute/www.google.com",
      url |-> URL("http", "localhost:8080", TRUE, << "absolute", "www.google.com" >>)],
     [str |-> "http//www.google.com",
      url |-> URL("", "", FALSE, << "http", "", "www.google.com" >>)],
     [str |-> "http://localhost:8080/absolute/http//www.google.com",
      url |-> URL("http", "localhost:8080", TRUE,
                  << "absolute", "http", "", "www.google.com" >>)] >>

\* the strings url.Parse rejects
Unparseable == {BadURI[1]}

\* nurl.Parse(uri): the URL, and whether there was an error
Parse(uri) ==
  IF Len(uri) = 1 /\ uri[1] \in Unparseable THEN [err |-> TRUE, url |-> URL("", "", FALSE, << >>)]
  ELSE [err |-> FALSE,
        url |-> URIForms[CHOOSE i \in DOMAIN URIForms : << URIForms[i].str >> = uri].url]

\* nurl.ParseRequestURI(uri): as Parse, but a URI without a scheme has to
\* begin with "/", is read without a host, and a fragment is not looked for
ParseRequestURI(uri) ==
  LET r == Parse(uri)
  IN  IF r.err THEN r
      ELSE IF r.url.Scheme = "" /\ ~r.url.rooted THEN [r EXCEPT !.err = TRUE]
      ELSE IF r.url.Scheme = "" THEN [r EXCEPT !.url.Host = ""]
      ELSE r

\* u.String()
String(u) ==
  << URIForms[CHOOSE i \in DOMAIN URIForms :
                 /\ URIForms[i].url = u
                 /\ \A j \in 1..(i - 1) : URIForms[j].url # u].str >>

RECURSIVE removeDotSegments(_, _)
\* the segments of a path without its "." and ".." segments
removeDotSegments(segments, out) ==
  IF segments = << >> THEN out
  ELSE IF Head(segments) = "." THEN removeDotSegments(Tail(segments), out)
  ELSE IF Head(segments) = ".."
  THEN removeDotSegments(Tail(segments), IF out = << >> THEN out ELSE SubSeq(out, 1, Len(out) - 1))
  ELSE removeDotSegments(Tail(segments), Append(out, Head(segments)))

\* resolvePath of net/url: the path of ref, or from the directory of base
resolvePath(base, ref) ==
  IF ref.Path = << >> /\ ~ref.rooted THEN removeDotSegments(base.Path, << >>)
  ELSE IF ~ref.rooted
  THEN removeDotSegments(SubSeq(base.Path, 1, Len(base.Path) - 1) \o ref.Path, << >>)
  ELSE removeDotSegments(ref.Path, << >>)

\* u.ResolveReference(ref)
ResolveReference(u, ref) ==
  LET scheme == IF ref.Scheme = "" THEN u.Scheme ELSE ref.Scheme
  IN  IF ref.Scheme # "" \/ ref.Host # ""
      THEN IF ref.Opaque # "" THEN [ref EXCEPT !.Scheme = scheme]
           ELSE [ref EXCEPT !.Scheme = scheme, !.Path = removeDotSegments(ref.Path, << >>)]
      ELSE [ref EXCEPT !.Scheme = scheme, !.Host = u.Host, !.rooted = TRUE,
                       !.Path = resolvePath(u, ref)]

\* strings.HasPrefix(uri, "#")
HasHashPrefix(uri) == uri[1] \in {HashURI[1], "#here"}

\* strings.HasPrefix(uri, "data:")
HasDataPrefix(uri) == uri[1] \in {TinyDataURL[1], SvgDataURL[1]}

\* tmp.Scheme != "" && tmp.Hostname() != "" of a URI that ParseRequestURI reads
IsAbsoluteURI(uri) ==
  LET tmp == ParseRequestURI(uri)
  IN  ~tmp.err /\ tmp.url.Scheme # "" /\ tmp.url.Host # ""

\* toAbsoluteURI without its test for "#"
toAbsoluteURIOfHash(uri, base) ==
  IF uri = << >> \/ base = NoBase THEN uri
  ELSE IF HasDataPrefix(uri) THEN uri
  ELSE IF IsAbsoluteURI(uri) THEN uri
  ELSE IF Parse(uri).err THEN uri
  ELSE String(ResolveReference(Parse(<< base >>).url, Parse(uri).url))

toAbsoluteURI(uri, base) ==
  IF uri = << >> \/ base = NoBase THEN uri
  ELSE IF HasHashPrefix(uri) THEN uri
  ELSE IF HasDataPrefix(uri) THEN uri
  ELSE IF IsAbsoluteURI(uri) THEN uri
  ELSE IF Parse(uri).err THEN uri
  ELSE String(ResolveReference(Parse(<< base >>).url, Parse(uri).url))

\* the descriptors that follow a URL in a srcset
SrcsetDescriptors == {"1x", "2x"}

\* rxSrcsetURL.ReplaceAllStringFunc of fixRelativeURIs
absoluteSrcset(srcset, base) ==
  [i \in DOMAIN srcset |->
     IF srcset[i] \in SrcsetDescriptors THEN srcset[i]
     ELSE toAbsoluteURI(<< srcset[i] >>, base)[1]]

\* strings.HasPrefix(href, "javascript:")
HasJavascriptPrefix(href) == href # << >> /\ href[1] = JavascriptURI[1]

fixLink(d, link, base) ==
  LET href == GetAttribute(d, link, "href")
      linkChilds == ChildNodes(d, link)
      new == Len(d) + 1
      newHref == toAbsoluteURI(href, base)
  IN  IF href = << >> THEN d
      ELSE IF HasJavascriptPrefix(href)
      THEN IF Len(linkChilds) = 1 /\ IsText(d, linkChilds[1])
           THEN ReplaceChild(CreateTextNode(d, TextContent(d, link)), d[link].parent, new, link)
           ELSE ReplaceChild(MoveChildNodes(CreateElement(d, "span"), link, new),
                             d[link].parent, new, link)
      ELSE IF newHref = << >> THEN RemoveAttribute(d, link, "href")
      ELSE SetAttribute(d, link, "href", newHref)

RECURSIVE fixLinks(_, _, _, _)
fixLinks(d, links, i, base) ==
  IF i > Len(links) \/ d = << >> THEN d ELSE fixLinks(fixLink(d, links[i], base), links, i + 1, base)

fixMedia(d, media, base) ==
  LET src == GetAttribute(d, media, "src")
      poster == GetAttribute(d, media, "poster")
      srcset == GetAttribute(d, media, "srcset")
      d1 == IF src # << >> THEN SetAttribute(d, media, "src", toAbsoluteURI(src, base)) ELSE d
      d2 == IF poster # << >>
            THEN SetAttribute(d1, media, "poster", toAbsoluteURI(poster, base)) ELSE d1
  IN  IF srcset # << >> THEN SetAttribute(d2, media, "srcset", absoluteSrcset(srcset, base))
      ELSE d2

RECURSIVE fixMedias(_, _, _, _)
fixMedias(d, medias, i, base) ==
  IF i > Len(medias) \/ d = << >> THEN d ELSE fixMedias(fixMedia(d, medias[i], base), medias, i + 1, base)

fixRelativeURIs(d, articleContent, base) ==
  LET medias(d1) ==
        Then(d1, fixMedias(d1, getAllNodesWithTag(d1, articleContent,
                      << "img", "picture", "figure", "video", "audio", "source" >>), 1, base))
  IN  medias(fixLinks(d, getAllNodesWithTag(d, articleContent, << "a" >>), 1, base))

\* strings.HasPrefix(nodeID, "readability")
HasReadabilityPrefix(id) == id # << >> /\ id[1] \in {"readability-page-1", "readability"}

RECURSIVE copyAttrs(_, _, _, _)
copyAttrs(d, from, to, keys) ==
  IF keys = {} \/ d = << >> THEN d
  ELSE LET k == CHOOSE x \in keys : TRUE
       IN  copyAttrs(SetAttribute(d, to, k, d[from].attrs[k]), from, to, keys \ {k})

RECURSIVE simplifyFrom(_, _)
\* the loop of simplifyNestedElements, from node on
simplifyFrom(d, node) ==
  IF node = 0 THEN d
  ELSE
    IF d[node].parent # 0 /\ TagName(d, node) \in {"div", "section"}
       /\ ~HasReadabilityPrefix(ID(d, node))
    THEN IF isElementWithoutContent(d, node)
         THEN LET r == removeAndGetNext(d, node) IN simplifyFrom(r.d, r.next)
         ELSE IF hasSingleTagInsideElement(d, node, "div")
                 \/ hasSingleTagInsideElement(d, node, "section")
         THEN LET child == Children(d, node)[1]
                  d1 == copyAttrs(d, node, child, DOMAIN d[node].attrs)
              IN  simplifyFrom(ReplaceChild(d1, d[node].parent, child, node), child)
         ELSE simplifyFrom(d, getNextNode(d, node, FALSE))
    ELSE simplifyFrom(d, getNextNode(d, node, FALSE))

simplifyNestedElements(d, articleContent) == simplifyFrom(d, articleContent)

RECURSIVE cleanClasses(_, _, _)
RECURSIVE cleanClassesOf(_, _, _)
cleanClasses(d, node, ClassesToPreserve) ==
  LET preservedClassName ==
        SelectSeq(ClassName(d, node), LAMBDA class : Contains(ClassesToPreserve, class))
      d1 == IF Len(preservedClassName) > 0
            THEN SetAttribute(d, node, "class", preservedClassName)
            ELSE RemoveAttribute(d, node, "class")
  IN  cleanClassesOf(d1, Children(d1, node), ClassesToPreserve)

cleanClassesOf(d, ks, ClassesToPreserve) ==
  IF ks = << >> \/ d = << >> THEN d
  ELSE cleanClassesOf(cleanClasses(d, Head(ks), ClassesToPreserve), Tail(ks), ClassesToPreserve)

RECURSIVE clearReadabilityAttr(_, _)
RECURSIVE clearReadabilityAttrOf(_, _)
\* the attributes of the node alone
clearReadabilityAttrOfNode(d, node) ==
  RemoveAttribute(RemoveAttribute(d, node, "data-readability-score"),
                  node, "data-readability-table")

clearReadabilityAttr(d, node) ==
  LET d1 == RemoveAttribute(RemoveAttribute(d, node, "data-readability-score"),
                            node, "data-readability-table")
  IN  clearReadabilityAttrOf(d1, Children(d1, node))

clearReadabilityAttrOf(d, ks) ==
  IF ks = << >> \/ d = << >> THEN d
  ELSE clearReadabilityAttrOf(clearReadabilityAttr(d, Head(ks)), Tail(ks))

\* the statements of postProcessContent, from the last to the first
postProcessContent(d, articleContent, cfg, base) ==
  LET cleared(d3) == Then(d3, clearReadabilityAttr(d3, articleContent))
      classes(d2) ==
        Then(d2, cleared(IF ~cfg.KeepClasses
                         THEN cleanClasses(d2, articleContent, cfg.ClassesToPreserve)
                         ELSE d2))
      simplified(d1) == Then(d1, classes(simplifyNestedElements(d1, articleContent)))
  IN  simplified(fixRelativeURIs(d, articleContent, base))

(***************************************************************************)
(* Metadata (parser.go 351-424, 1261-1508, 2161-2209; parser-parse.go      *)
(* 138-156).  The content of a <meta> and every metadata value is a string *)
(* of runs.                                                                *)
(***************************************************************************)
\* the characters of [\|\-\\/>] (the alphabet has no other separator)
TitleSeparators == {"|", "-", "\\", "/", ">"}

TitleHierarchySeparators == {"\\", "/", ">"}

\* a space, one character of seps, a space
HasSeparator(s, seps) ==
  \E i \in 2..(Len(s) - 1) :
     s[i].c \in seps /\ s[i].n = 1 /\ s[i - 1].c = " " /\ s[i + 1].c = " "

\* s without the last character of run i and everything after it
Before(s, i) == SubSeq(s, 1, i - 1) \o Str(s[i].c, s[i].n - 1)

\* s after the first character of run i
After(s, i) == StrCat(Str(s[i].c, s[i].n - 1), SubSeq(s, i + 1, Len(s)))

\* rxTitleRemoveFinalPart.ReplaceAllString(s, "$1"): s up to the last
\* separator that a space follows
RemoveFinalPart(s) ==
  LET at == {i \in 1..(Len(s) - 1) : s[i].c \in TitleSeparators /\ s[i + 1].c = " "}
  IN  IF at = {} THEN s ELSE Before(s, CHOOSE i \in at : \A j \in at : j <= i)

\* rxTitleRemove1stPart.ReplaceAllString(s, "$1"): s after its first separator
Remove1stPart(s) ==
  LET at == {i \in DOMAIN s : s[i].c \in TitleSeparators}
  IN  IF at = {} THEN s ELSE After(s, CHOOSE i \in at : \A j \in at : i <= j)

RECURSIVE Canonical(_)
\* the runs of s with equal neighbours merged
Canonical(s) == IF s = << >> THEN << >> ELSE StrCat(<< s[1] >>, Canonical(Tail(s)))

\* rxTitleAnySeparator.ReplaceAllString(s, "")
RemoveSeparators(s) == Canonical(SelectSeq(s, LAMBDA r : r.c \notin TitleSeparators))

\* wordCount: len(strings.Fields(s))
wordCount(s) ==
  Cardinality({i \in DOMAIN s : s[i].c # " " /\ (i = 1 \/ s[i - 1].c = " ")})

\* strings.Contains(s, ": ")
HasColonSpace(s) == \E i \in 1..(Len(s) - 1) : s[i].c = ":" /\ s[i + 1].c = " "

Colons(s) == {i \in DOMAIN s : s[i].c = ":"}

FirstColon(s) == CHOOSE i \in Colons(s) : \A j \in Colons(s) : i <= j

LastColon(s) == CHOOSE i \in Colons(s) : \A j \in Colons(s) : j <= i

\* titleFrom without its return to the original title for a short result
titleFromAsFound(d, doc, origTitle) ==
  LET hasSep == HasSeparator(origTitle, TitleSeparators)
      titleHadHierarchicalSeparators ==
        hasSep /\ HasSeparator(origTitle, TitleHierarchySeparators)
      headings == GetElementsByTagName(d, doc, "h1") \o GetElementsByTagName(d, doc, "h2")
      match == \E i \in DOMAIN headings :
                  TrimSpace(TextContent(d, headings[i])) = TrimSpace(origTitle)
      hOnes == GetElementsByTagName(d, doc, "h1")
      afterLast == SubSeq(origTitle, LastColon(origTitle) + 1, Len(origTitle))
      curTitle ==
        IF hasSep
        THEN IF wordCount(RemoveFinalPart(origTitle)) < 3 THEN Remove1stPart(origTitle)
             ELSE RemoveFinalPart(origTitle)
        ELSE IF HasColonSpace(origTitle)
        THEN IF match THEN origTitle
             ELSE IF wordCount(afterLast) < 3 THEN After(origTitle, FirstColon(origTitle))
             ELSE IF wordCount(SubSeq(origTitle, 1, FirstColon(origTitle) - 1)) > 5
             THEN origTitle
             ELSE afterLast
        ELSE IF (charCount(origTitle) > 150 \/ charCount(origTitle) < 15) /\ Len(hOnes) = 1
        THEN getInnerText(d, hOnes[1], TRUE)
        ELSE origTitle
      normalized == NormalizeSpaces(TrimSpace(curTitle))
      curTitleWordCount == wordCount(normalized)
  IN  IF curTitleWordCount < 0 THEN origTitle ELSE normalized

\* the title of the article, from the text of the <title>
titleFrom(d, doc, origTitle) ==
  LET hasSep == HasSeparator(origTitle, TitleSeparators)
      titleHadHierarchicalSeparators ==
        hasSep /\ HasSeparator(origTitle, TitleHierarchySeparators)
      headings == GetElementsByTagName(d, doc, "h1") \o GetElementsByTagName(d, doc, "h2")
      match == \E i \in DOMAIN headings :
                  TrimSpace(TextContent(d, headings[i])) = TrimSpace(origTitle)
      hOnes == GetElementsByTagName(d, doc, "h1")
      afterLast == SubSeq(origTitle, LastColon(origTitle) + 1, Len(origTitle))
      curTitle ==
        IF hasSep
        THEN IF wordCount(RemoveFinalPart(origTitle)) < 3 THEN Remove1stPart(origTitle)
             ELSE RemoveFinalPart(origTitle)
        ELSE IF HasColonSpace(origTitle)
        THEN IF match THEN origTitle
             ELSE IF wordCount(afterLast) < 3 THEN After(origTitle, FirstColon(origTitle))
             ELSE IF wordCount(SubSeq(origTitle, 1, FirstColon(origTitle) - 1)) > 5
             THEN origTitle
             ELSE afterLast
        ELSE IF (charCount(origTitle) > 150 \/ charCount(origTitle) < 15) /\ Len(hOnes) = 1
        THEN getInnerText(d, hOnes[1], TRUE)
        ELSE origTitle
      normalized == NormalizeSpaces(TrimSpace(curTitle))
      curTitleWordCount == wordCount(normalized)
  IN  IF curTitleWordCount <= 4
         /\ (~titleHadHierarchicalSeparators
             \/ curTitleWordCount # wordCount(RemoveSeparators(origTitle)) - 1)
      THEN origTitle
      ELSE normalized

getArticleTitle(d, doc) ==
  LET titles == GetElementsByTagName(d, doc, "title")
  IN  titleFrom(d, doc, IF Len(titles) > 0 THEN getInnerText(d, titles[1], TRUE) ELSE << >>)

\* a JSON value decoded by json.Unmarshal, by its Go type
JString(v) == [t |-> "string", v |-> v]

JObject(f) == [t |-> "object", v |-> f]

JArray(s) == [t |-> "array", v |-> s]

\* v, isString := o[k].(string)
IsJString(o, k) == k \in DOMAIN o /\ o[k].t = "string"

\* rxSchemaOrg
rxSchemaOrg(v) == v \in {"http://schema.org", "https://schema.org", "https://schema.org/"}

\* rxJsonLdArticleTypes
rxJsonLdArticleTypes(v) == v \in {"Article", "NewsArticle", "BlogPosting", "Report"}

\* a map[string]string read at a key: the zero value when the key is absent
Lookup(m, k) == IF k \in DOMAIN m THEN m[k] ELSE << >>

RECURSIVE strOr(_)
strOr(args) ==
  IF args = << >> THEN << >>
  ELSE IF Head(args) # << >> THEN Head(args) ELSE strOr(Tail(args))

EmptyMap == [k \in {} |-> << >>]

MapSet(m, k, v) == [x \in (DOMAIN m) \cup {k} |-> IF x = k THEN v ELSE m[x]]

RECURSIVE joinAuthors(_)
\* strings.Join(authors, ", ") over the objects of the array that have a name
joinAuthors(authors) ==
  LET rest == joinAuthors(Tail(authors))
      a == Head(authors)
      named == a.t = "object" /\ IsJString(a.v, "name")
      name == TrimSpace(a.v["name"].v)
      follows == \E i \in 2..Len(authors) :
                    authors[i].t = "object" /\ IsJString(authors[i].v, "name")
  IN  IF authors = << >> THEN << >>
      ELSE IF ~named THEN rest
      ELSE IF follows THEN StrCat(name, StrCat(<< Run(",", 1), Run(" ", 1) >>, rest))
      ELSE name

\* the object the metadata is read from: the decoded object, or the first
\* article of its @graph when it has no @type
jsonLdArticle(parsed) ==
  LET graphList == parsed["@graph"].v
      articles == SelectSeq(graphList,
                    LAMBDA g : g.t = "object" /\ IsJString(g.v, "@type")
                               /\ rxJsonLdArticleTypes(g.v["@type"].v))
  IN  IF "@type" \in DOMAIN parsed THEN parsed
      ELSE IF articles # << >> THEN articles[1].v ELSE parsed

\* the metadata of one decoded object
jsonLdMetadata(parsed, title) ==
  LET bothTitles == IsJString(parsed, "name") /\ IsJString(parsed, "headline")
                    /\ parsed["name"].v # parsed["headline"].v
      nameMatches == textSimilarityAbove75(parsed["name"].v, title)
      headlineMatches == textSimilarityAbove75(parsed["headline"].v, title)
      withTitle ==
        IF bothTitles
        THEN MapSet(EmptyMap, "title",
                    IF headlineMatches /\ ~nameMatches THEN parsed["headline"].v
                    ELSE parsed["name"].v)
        ELSE IF IsJString(parsed, "name")
        THEN MapSet(EmptyMap, "title", TrimSpace(parsed["name"].v))
        ELSE IF IsJString(parsed, "headline")
        THEN MapSet(EmptyMap, "title", TrimSpace(parsed["headline"].v))
        ELSE EmptyMap
      author == parsed["author"]
      withByline(m) ==
        IF "author" \notin DOMAIN parsed THEN m
        ELSE IF author.t = "object"
        THEN IF IsJString(author.v, "name")
             THEN MapSet(m, "byline", TrimSpace(author.v["name"].v)) ELSE m
        ELSE IF author.t = "array" THEN MapSet(m, "byline", joinAuthors(author.v))
        ELSE m
      withExcerpt(m) ==
        IF IsJString(parsed, "description")
        THEN MapSet(m, "excerpt", TrimSpace(parsed["description"].v)) ELSE m
      withSiteName(m) ==
        IF "publisher" \in DOMAIN parsed /\ parsed["publisher"].t = "object"
           /\ IsJString(parsed["publisher"].v, "name")
        THEN MapSet(m, "siteName", TrimSpace(parsed["publisher"].v["name"].v)) ELSE m
      withDatePublished(m) ==
        IF IsJString(parsed, "datePublished")
        THEN MapSet(m, "datePublished", parsed["datePublished"].v) ELSE m
  IN  withDatePublished(withSiteName(withExcerpt(withByline(withTitle))))

\* whether a <script type="application/ld+json"> yields metadata.  The
\* attribute "json" of the element stands for its text decoded by
\* json.Unmarshal; the element has none when the text does not decode
jsonLdUsable(d, s) ==
  /\ HasAttribute(d, s, "json")
  /\ LET parsed == d[s].attrs["json"]
     IN  /\ IsJString(parsed, "@context") /\ rxSchemaOrg(parsed["@context"].v)
         /\ "@type" \in DOMAIN parsed
            \/ ("@graph" \in DOMAIN parsed /\ parsed["@graph"].t = "array")
         /\ IsJString(jsonLdArticle(parsed), "@type")
         /\ rxJsonLdArticleTypes(jsonLdArticle(parsed)["@type"].v)

getJSONLD(d, doc) ==
  LET scripts == SelectSeq(GetElementsByTagName(d, doc, "script"),
                   LAMBDA s : GetAttribute(d, s, "type") = << "application/ld+json" >>)
      usable == SelectSeq(scripts, LAMBDA s : jsonLdUsable(d, s))
  IN  IF usable = << >> THEN EmptyMap
      ELSE jsonLdMetadata(jsonLdArticle(d[usable[1]].attrs["json"]), getArticleTitle(d, doc))

\* the property values rxPropertyPattern finds (FindAllString)
PropertyNames ==
  {"dc:title", "dc:creator", "dc:description", "og:title", "og:description",
   "og:site_name", "og:image", "article:author", "article:published_time",
   "article:modified_time", "twitter:title", "twitter:description", "twitter:image"}

\* the name values rxNamePattern matches
NameNames ==
  {"author", "creator", "description", "title", "site_name", "image",
   "published_time", "modified_time", "dc.title", "dc.creator", "dc.description",
   "dc:title", "dc:creator", "twitter:title", "twitter:description", "twitter:image",
   "og:title", "weibo:article:title"}

\* strings.Replace(name, ".", ":", -1)
DotsToColons(name) ==
  CASE name = "dc.title" -> "dc:title"
    [] name = "dc.creator" -> "dc:creator"
    [] name = "dc.description" -> "dc:description"
    [] OTHER -> name

RECURSIVE setMatches(_, _, _, _)
\* the loop over the matches of the property attribute, last to first
setMatches(values, matches, i, content) ==
  IF i < 1 THEN values
  ELSE setMatches(MapSet(values, matches[i], TrimSpace(content)), matches, i - 1, content)

\* the callback of getArticleMetadata on one <meta>
metaValues(d, values, element) ==
  LET elementName == GetAttribute(d, element, "name")
      elementProperty == GetAttribute(d, element, "property")
      content == GetAttribute(d, element, "content")
      matches == SelectSeq(elementProperty, LAMBDA t : t \in PropertyNames)
  IN  IF content = << >> THEN values
      ELSE IF matches # << >> THEN setMatches(values, matches, Len(matches), content)
      ELSE IF Len(elementName) = 1 /\ elementName[1] \in NameNames
      THEN MapSet(values, DotsToColons(elementName[1]), TrimSpace(content))
      ELSE values

RECURSIVE allMetaValues(_, _, _, _)
allMetaValues(d, values, metaElements, i) ==
  IF i > Len(metaElements) THEN values
  ELSE allMetaValues(d, metaValues(d, values, metaElements[i]), metaElements, i + 1)

\* rxFaviconSize on the sizes and the href of a <link>: the size found, or 0
faviconSize(linkSizes, linkHref) ==
  IF linkSizes = << "32x32" >> THEN 32
  ELSE IF linkSizes = << "16x16" >> THEN 16
  ELSE IF linkHref = << "/icon-64x64.png" >> THEN 64
  ELSE 0

\* strings.Contains(linkHref, ".png")
IsPngURI(v) == v \in {<< "/icon.png" >>, << "/icon-64x64.png" >>}

RECURSIVE pickFavicon(_, _, _, _)
\* the loop over the <link> elements; best is the favicon found so far
pickFavicon(d, linkElements, i, best) ==
  IF i > Len(linkElements) THEN best.favicon
  ELSE
    LET link == linkElements[i]
        linkRel == GetAttribute(d, link, "rel")
        linkType == GetAttribute(d, link, "type")
        linkHref == GetAttribute(d, link, "href")
        linkSizes == GetAttribute(d, link, "sizes")
        size == faviconSize(linkSizes, linkHref)
    IN  IF linkHref = << >> \/ ~MatchesAny(linkRel, {"icon", "apple-touch-icon"})
        THEN pickFavicon(d, linkElements, i + 1, best)
        ELSE IF linkType # << "image/png" >> /\ ~IsPngURI(linkHref)
        THEN pickFavicon(d, linkElements, i + 1, best)
        ELSE IF size > best.faviconSize
        THEN pickFavicon(d, linkElements, i + 1, [favicon |-> linkHref, faviconSize |-> size])
        ELSE pickFavicon(d, linkElements, i + 1, best)

getArticleFavicon(d, doc, base) ==
  toAbsoluteURI(pickFavicon(d, GetElementsByTagName(d, doc, "link"), 1,
                            [favicon |-> << >>, faviconSize |-> -1]), base)

\* the strings of the alphabet hold no character reference, so that
\* html.UnescapeString returns them as they are
metadataFrom(d, doc, jsonLd, base, values) ==
  LET metadataTitle ==
        strOr(<< Lookup(jsonLd, "title"), Lookup(values, "dc:title"),
                 Lookup(values, "dcterm:title"), Lookup(values, "og:title"),
                 Lookup(values, "weibo:article:title"), Lookup(values, "weibo:webpage:title"),
                 Lookup(values, "title"), Lookup(values, "twitter:title") >>)
  IN  [title |-> IF metadataTitle = << >> THEN getArticleTitle(d, doc) ELSE metadataTitle,
       byline |-> strOr(<< Lookup(jsonLd, "byline"), Lookup(values, "dc:creator"),
                           Lookup(values, "dcterm:creator"), Lookup(values, "author") >>),
       excerpt |->
         strOr(<< Lookup(jsonLd, "excerpt"), Lookup(values, "dc:description"),
                  Lookup(values, "dcterm:description"), Lookup(values, "og:description"),
                  Lookup(values, "weibo:article:description"),
                  Lookup(values, "weibo:webpage:description"),
                  Lookup(values, "description"), Lookup(values, "twitter:description") >>),
       siteName |-> strOr(<< Lookup(jsonLd, "siteName"), Lookup(values, "og:site_name") >>),
       image |-> strOr(<< Lookup(values, "og:image"), Lookup(values, "image"),
                          Lookup(values, "twitter:image") >>),
       favicon |-> getArticleFavicon(d, doc, base),
       publishedTime |->
         strOr(<< Lookup(jsonLd, "datePublished"), Lookup(values, "article:published_time"),
                  Lookup(values, "dcterms.available"), Lookup(values, "dcterms.created"),
                  Lookup(values, "dcterms.issued"), Lookup(values, "weibo:article:create_at") >>),
       modifiedTime |->
         strOr(<< Lookup(jsonLd, "dateModified"), Lookup(values, "article:modified_time"),
                  Lookup(values, "dcterms.modified") >>)]

getArticleMetadata(d, doc, jsonLd, base) ==
  metadataFrom(d, doc, jsonLd, base,
               allMetaValues(d, EmptyMap, GetElementsByTagName(d, doc, "meta"), 1))

\* a date is written as a run of digits; dateparse.ParseAny accepts a run
\* of four (a year) and nothing else of the alphabet
IsDate(s) == Len(s) = 1 /\ s[1].n = 4 /\ s[1].c \in {"1", "2"}

\* getDate: the parsed time, written as the string it was parsed from, or
\* << >> for nil
getDate(metadata, fieldName) ==
  IF Len(metadata[fieldName]) > 0 /\ IsDate(metadata[fieldName])
  THEN metadata[fieldName] ELSE << >>

\* strings.Join(strings.Fields(s), " ")
JoinFields(s) ==
  LET t == TrimSpace(s) IN [i \in DOMAIN t |-> IF IsSpaceChar(t[i].c) THEN Run(" ", 1) ELSE t[i]]

RECURSIVE InnerHTML(_, _)
\* dom.InnerHTML(n): the serialisation of the children of n, as a term
InnerHTML(d, n) ==
  [i \in DOMAIN d[n].kids |->
     LET k == d[n].kids[i]
     IN  [type |-> d[k].type, tag |-> d[k].tag, attrs |-> d[k].attrs, text |-> d[k].text,
          kids |-> InnerHTML(d, k)]]

\* Article{}
EmptyArticle ==
  [Title |-> << >>, Byline |-> << >>, Node |-> 0, Content |-> << >>, TextContent |-> << >>,
   Length |-> 0, Excerpt |-> << >>, SiteName |-> << >>, Image |-> << >>, Favicon |-> << >>,
   Language |-> << >>, PublishedTime |-> << >>, ModifiedTime |-> << >>]

(***************************************************************************)
(* CheckDocument (parser-check.go 24-96).  The score is a float64; here it *)
(* is an integer, SqrtScale times the sum of the square roots, each root   *)
(* rounded down.                                                           *)
(***************************************************************************)
\* rxUnlikelyCandidates and rxOkMaybeItsACandidate, the package variables
\* "foot" stands where IsUnlikelyCandidates has "footer", and "ai2html" is
\* not among the alternatives; FootTokens are the tokens that contain "foot"
FootTokens == {"foot", "footer", "footnote"}

rxUnlikelyCandidates(v) == MatchesAny(v, (UnlikelyWords \ {"ai2html"}) \cup FootTokens)

rxOkMaybeItsACandidate(v) == MatchesAny(v, MaybeWords \ {"content"})

SqrtScale == 1000

RECURSIVE SqrtBetween(_, _, _)
\* the greatest r of lo..hi with r * r <= x, where lo * lo <= x
SqrtBetween(x, lo, hi) ==
  IF lo = hi THEN lo
  ELSE LET mid == (lo + hi + 1) \div 2
       IN  IF mid * mid <= x THEN SqrtBetween(x, mid, hi) ELSE SqrtBetween(x, lo, mid - 1)

\* math.Sqrt(float64(n)), times SqrtScale and rounded down
Sqrt(n) == SqrtBetween(n * SqrtScale * SqrtScale, 0, 46340)

RECURSIVE finder(_, _, _)
RECURSIVE finderOf(_, _, _)
\* finder listing <article> as well
finderOfArticles(d, node, nodeList) ==
  LET tag == TagName(d, node)
      parent == d[node].parent
      found ==
        IF IsElement(d, node) /\ tag \in {"p", "pre", "article"}
        THEN IF Contains(nodeList, node) THEN nodeList ELSE Append(nodeList, node)
        ELSE IF IsElement(d, node) /\ tag = "br" /\ parent # 0 /\ TagName(d, parent) = "div"
        THEN IF Contains(nodeList, parent) THEN nodeList ELSE Append(nodeList, parent)
        ELSE nodeList
  IN  finderOf(d, ChildNodes(d, node), found)

\* nodeList after finder(node); nodeDict is the set of the nodes of nodeList
finder(d, node, nodeList) ==
  LET tag == TagName(d, node)
      parent == d[node].parent
      found ==
        IF IsElement(d, node) /\ tag \in {"p", "pre"}
        THEN IF Contains(nodeList, node) THEN nodeList ELSE Append(nodeList, node)
        ELSE IF IsElement(d, node) /\ tag = "br" /\ parent # 0 /\ TagName(d, parent) = "div"
        THEN IF Contains(nodeList, parent) THEN nodeList ELSE Append(nodeList, parent)
        ELSE nodeList
  IN  finderOf(d, ChildNodes(d, node), found)

finderOf(d, childs, nodeList) ==
  IF childs = << >> THEN nodeList
  ELSE finderOf(d, Tail(childs), finder(d, Head(childs), nodeList))

\* what the callback of someNode adds to the score for node; -1 when it
\* returns before it adds
checkNode(d, node) ==
  LET matchString == ClassName(d, node) \o ID(d, node)
      nodeTextLength == charCount(TrimSpace(TextContent(d, node)))
  IN  IF ~isProbablyVisible(d, node) THEN -1
      ELSE IF rxUnlikelyCandidates(matchString) /\ ~rxOkMaybeItsACandidate(matchString) THEN -1
      ELSE IF TagName(d, node) = "p" /\ hasAncestorTag(d, node, "li", -1, FALSE) THEN -1
      ELSE IF nodeTextLength < 140 THEN -1
      ELSE Sqrt(nodeTextLength - 140)

RECURSIVE checkNodes(_, _, _, _, _)
\* checkNodes returning true at a score of 20
checkNodesFrom20(d, nodeList, i, score, scores) ==
  IF i > Len(nodeList) THEN [scores |-> scores, result |-> FALSE]
  ELSE LET add == checkNode(d, nodeList[i])
           sum == IF add < 0 THEN score ELSE score + add
       IN  IF add >= 0 /\ sum >= 20 * SqrtScale
           THEN [scores |-> Append(scores, sum), result |-> TRUE]
           ELSE checkNodes(d, nodeList, i + 1, sum, Append(scores, sum))

\* someNode over nodeList from its i-th node on: the score after each node
\* visited, and whether the callback returned true
checkNodes(d, nodeList, i, score, scores) ==
  IF i > Len(nodeList) THEN [scores |-> scores, result |-> FALSE]
  ELSE LET add == checkNode(d, nodeList[i])
           sum == IF add < 0 THEN score ELSE score + add
       IN  IF add >= 0 /\ sum > 20 * SqrtScale
           THEN [scores |-> Append(scores, sum), result |-> TRUE]
           ELSE checkNodes(d, nodeList, i + 1, sum, Append(scores, sum))

\* ps.CheckDocument(doc): the nodes listed, the score after each node
\* visited and the value returned
CheckDocument(d, doc) ==
  LET nodeList == finder(d, doc, << >>)
      checked == checkNodes(d, nodeList, 1, 0, << >>)
  IN  [nodeList |-> nodeList, scores |-> checked.scores, result |-> checked.result]

(***************************************************************************)
(* Input documents.  A tree is a node with the trees of its children; a    *)
(* document is laid out in the arena in document order, as dom.Parse and   *)
(* dom.Clone build it.                                                     *)
(***************************************************************************)
E(tag, attrs, kids) == [node |-> ElementNode(tag, attrs), kids |-> kids]

T(s) == [node |-> TextNode(s), kids |-> << >>]

C == [node |-> CommentNode, kids |-> << >>]

RECURSIVE AddTree(_, _, _)
RECURSIVE AddTrees(_, _, _)
\* the arena d with the tree t appended as the last child of par
AddTree(d, par, t) ==
  LET id == Len(d) + 1
      d1 == Append(d, [t.node EXCEPT !.parent = par])
      d2 == IF par = 0 THEN d1 ELSE [d1 EXCEPT ![par].kids = Append(@, id)]
  IN  AddTrees(d2, id, t.kids)

AddTrees(d, par, ts) ==
  IF ts = << >> \/ d = << >> THEN d
  ELSE AddTrees(AddTree(d, par, Head(ts)), par, Tail(ts))

\* the texts of the documents
LongText == << Run("a", 300), Run(",", 1), Run(" ", 1), Run("b", 300) >>

ShortText == << Run("a", 30) >>

Word == << Run("a", 3) >>

Space == << Run(" ", 1) >>

TitleText == << Run("t", 5), Run(" ", 1), Run("u", 5), Run(" ", 1), Run("v", 5) >>

\* the parts a document is put together from: where is "head", "body" or
\* "html" (an attribute of the root element)
Fragments ==
  << [where |-> "body", trees |-> << E("p", NoAttrs, << T(LongText) >>) >>],
     [where |-> "body", trees |-> << E("p", NoAttrs, << T(ShortText) >>) >>],
     [where |-> "body",
      trees |-> << E("div", "class" :> << "sidebar" >>,
                     << E("p", NoAttrs, << T(LongText) >>) >>) >>],
     [where |-> "body",
      trees |-> << E("div", "class" :> << "promo" >>,
                     << E("p", NoAttrs, << T(LongText) >>) >>) >>],
     [where |-> "body",
      trees |-> << E("form", NoAttrs,
                     << E("p", NoAttrs, << T(LongText) >>), E("input", NoAttrs, << >>) >>) >>],
     [where |-> "body",
      trees |-> << E("p", NoAttrs, << T(Word) >>),
                   E("section", NoAttrs,
                     << T(Space), E("aside", NoAttrs, << T(Word) >>), T(Space) >>),
                   E("p", NoAttrs, << T(Word) >>) >>],
     [where |-> "body",
      trees |-> << E("div", NoAttrs,
                     << T(ShortText), E("br", NoAttrs, << >>), T(Space),
                        E("br", NoAttrs, << >>), T(LongText) >>) >>],
     [where |-> "body",
      trees |-> << E("script", NoAttrs, << T(Word) >>), C,
                   E("font", "style" :> << "display:none" >>, << T(Word) >>) >>],
     [where |-> "body",
      trees |-> << E("div", "class" :> << "byline" >>, << T(Word) >>),
                   E("h1", NoAttrs, << T(TitleText) >>) >>],
     [where |-> "body",
      trees |-> << E("table", "summary" :> << "x" >>,
                     << E("tbody", NoAttrs,
                          << E("tr", NoAttrs,
                               << E("td", NoAttrs,
                                    << T(ShortText),
                                       E("a", "href" :> RootedURI, << T(Word) >>) >>) >>) >>) >>) >>],
     [where |-> "body",
      trees |-> << E("img", "class" :> << "lazy" >>, << >>),
                   E("noscript", NoAttrs, << T(<< Run("I", 1) >>) >>) >>],
     [where |-> "head",
      trees |-> << E("title", NoAttrs, << T(TitleText) >>),
                   E("style", NoAttrs, << T(Word) >>) >>],
     [where |-> "head",
      trees |-> << E("meta", ("name" :> << "author" >>) @@ ("content" :> Word), << >>),
                   E("meta", ("property" :> << "og:description" >>) @@ ("content" :> ShortText),
                     << >>) >>],
     [where |-> "html", trees |-> << >>] >>

\* the increasing sequences of at most n indices of Fragments
RECURSIVE Choices(_, _)
Choices(n, from) ==
  IF n = 0 \/ from > Len(Fragments) THEN {<< >>}
  ELSE {<< >>} \cup UNION {{<< i >> \o c : c \in Choices(n - 1, i + 1)} :
                            i \in from..Len(Fragments)}

RECURSIVE TreesOf(_, _)
TreesOf(choice, where) ==
  IF choice = << >> THEN << >>
  ELSE (IF Fragments[Head(choice)].where = where THEN Fragments[Head(choice)].trees
        ELSE << >>) \o TreesOf(Tail(choice), where)

\* the document of a choice of fragments; without withBody it has no <body>
\* (a tree the caller built by hand; dom.Parse always makes one)
Document(choice, withBody) ==
  LET lang == IF \E i \in DOMAIN choice : Fragments[choice[i]].where = "html"
              THEN "lang" :> << "en" >> ELSE NoAttrs
  IN  AddTree(<< DocumentNode >>, 1,
              E("html", lang,
                << E("head", NoAttrs, TreesOf(choice, "head")) >>
                \o (IF withBody THEN << E("body", NoAttrs, TreesOf(choice, "body")) >>
                    ELSE << >>)))

\* a document with the given children of <head> and of <body>
Page(head, body) ==
  AddTree(<< DocumentNode >>, 1,
          E("html", NoAttrs, << E("head", NoAttrs, head), E("body", NoAttrs, body) >>))

\* a paragraph with links and media of every kind of address
LinksPage ==
  Page(<< >>,
       << E("p", NoAttrs,
            << T(LongText),
               E("a", "href" :> MixedCaseJavascriptURI, << T(Word) >>),
               E("a", "href" :> BadURI, << T(Word) >>),
               E("a", "href" :> RelativeURI, << T(Word) >>),
               E("a", "href" :> JavascriptURI, << T(Word) >>),
               E("a", "href" :> DotRelativeURI, << T(Word) >>),
               E("a", "href" :> HashURI, << T(Word) >>),
               E("a", "href" :> SchemeRelativeURI, << T(Word) >>),
               E("img", "src" :> BadURI, << >>),
               E("video", ("poster" :> BadURI) @@ ("src" :> RootedURI), << >>) >>) >>)

\* two paragraphs and a figure whose section holds two divs; each div holds
\* a footer with a list, which keeps it a div until clean removes the footer
NestedPage ==
  Page(<< >>,
       << E("div", NoAttrs,
            << E("p", NoAttrs, << T(LongText) >>),
               E("p", NoAttrs, << T(LongText) >>),
               E("figure", NoAttrs,
                 << E("section", NoAttrs,
                      << E("div", NoAttrs,
                           << E("footer", NoAttrs, << E("ul", NoAttrs, << >>) >>) >>),
                         E("div", NoAttrs,
                           << E("footer", NoAttrs, << E("ul", NoAttrs, << >>) >>) >>) >>) >>) >>) >>)

\* the JSON-LD of an article, with the given fields next to its type
ArticleLD(fields) ==
  ("@context" :> JString("https://schema.org")) @@ ("@type" :> JString("Article")) @@ fields

\* a page with JSON-LD and with <meta property="article:modified_time">
DatedPage(fields) ==
  Page(<< E("script", ("type" :> << "application/ld+json" >>) @@ ("json" :> ArticleLD(fields)),
            << T(Word) >>),
          E("meta", ("property" :> << "article:modified_time" >>)
                    @@ ("content" :> << Run("2", 4) >>), << >>) >>,
       << E("p", NoAttrs, << T(LongText) >>) >>)

\* the JSON-LD has datePublished and dateModified, or datePublished alone
DatedPages ==
  {DatedPage(("datePublished" :> JString(<< Run("1", 4) >>))
             @@ ("dateModified" :> JString(<< Run("1", 4) >>))),
   DatedPage("datePublished" :> JString(<< Run("1", 4) >>))}

\* a page with four elements that name an author: one is hidden, one has
\* the text given, of 100 characters or more, and two could be the byline
BylinePage(text) ==
  Page(<< >>,
       << E("div", ("class" :> << "byline" >>) @@ ("style" :> << "display:none" >>),
            << T(Word) >>),
          E("p", "class" :> << "author" >>, << T(text) >>),
          E("a", "rel" :> << "author" >>, << T(<< Run(" ", 1) >> \o Word) >>),
          E("p", "class" :> << "byline" >>, << T(ShortText) >>) >>)

BylinePages == {BylinePage(LongText), BylinePage(<< Run("b", 100) >>)}

\* a lazy image with the <noscript> that holds the real one, among a
\* comment, a script, a style and a font
NoscriptPage ==
  Page(<< E("style", NoAttrs, << T(Word) >>) >>,
       << E("p", NoAttrs, << T(LongText), E("font", NoAttrs, << T(Word) >>) >>),
          E("img", "src" :> RootedURI, << >>),
          E("noscript", NoAttrs, << T(<< Run("I", 1) >>) >>),
          C,
          E("script", NoAttrs, << T(Word) >>) >>)

\* whole documents, next to the ones put together from fragments
Pages == {LinksPage, NestedPage, NoscriptPage} \cup DatedPages \cup BylinePages

InputDocuments ==
  {Document(c, TRUE) : c \in Choices(MaxBlocks, 1)} \cup {Document(<< >>, FALSE)} \cup Pages

(***************************************************************************)
(* The parser as a state machine.  heap holds the trees the program has    *)
(* allocated, by handle; one call of ParseDocument runs through            *)
(*   idle -> size -> prep -> grab (once per attempt) -> post -> finish     *)
(*        -> done                                                          *)
(***************************************************************************)
VARIABLES
  cfg,            \* the public fields of the Parser
  heap,           \* handle -> tree
  callerDoc,      \* the handle of the tree the caller passed (0: none yet)
  psDoc,          \* ps.doc
  documentURI,    \* ps.documentURI
  flags,          \* ps.flags
  attempts,       \* ps.attempts
  articleTitle,   \* ps.articleTitle
  articleByline,  \* ps.articleByline
  articleLang,    \* ps.articleLang
  metadata,       \* the local metadata of ParseDocument
  articleContent, \* the local articleContent of ParseDocument (Nil: nil)
  article,        \* the Article returned
  err,            \* the error returned
  pc,             \* the position of ParseDocument
  origDoc,        \* history: the caller's tree when the call was made
  ran,            \* history: the flags each attempt ran with
  lengths,        \* history: the text length each attempt measured
  hadMarks,       \* history: the content carried bookkeeping before post-processing
  bylined,        \* history: the elements checkByline was true of, attempt by attempt
  returned,       \* history: the calls of ParseDocument that returned before this one
  call,           \* a function called on its own: its name and its arguments
  ret             \* the values that function has returned, in their order

vars == << cfg, heap, callerDoc, psDoc, documentURI, flags, attempts, articleTitle,
           articleByline, articleLang, metadata, articleContent, article, err, pc,
           origDoc, ran, lengths, hadMarks, bylined, returned, call, ret >>

Nil == [doc |-> 0, node |-> 0]

\* ParseDocument is the call: no function is called on its own
NoCall == [fn |-> ""]

\* NewParser()
NewParser ==
  [MaxElemsToParse |-> 0, NTopCandidates |-> 5, CharThresholds |-> 500,
   ClassesToPreserve |-> << "page" >>, KeepClasses |-> FALSE,
   TagsToScore |-> << "section", "h2", "h3", "h4", "h5", "h6", "p", "td", "pre" >>,
   DisableJSONLD |-> FALSE]

\* Parser{}: the zero value of the type
ZeroParser ==
  [MaxElemsToParse |-> 0, NTopCandidates |-> 0, CharThresholds |-> 0,
   ClassesToPreserve |-> << >>, KeepClasses |-> FALSE, TagsToScore |-> << >>,
   DisableJSONLD |-> FALSE]

\* the configurations of the model: the default one and ones a caller sets
Parsers ==
  {NewParser,
   [NewParser EXCEPT !.CharThresholds = 20],
   [NewParser EXCEPT !.CharThresholds = 0, !.KeepClasses = TRUE],
   [NewParser EXCEPT !.MaxElemsToParse = 4, !.DisableJSONLD = TRUE],
   ZeroParser}

NoFlags == [stripUnlikelys |-> FALSE, useWeightClasses |-> FALSE, cleanConditionally |-> FALSE]

AllFlags == [stripUnlikelys |-> TRUE, useWeightClasses |-> TRUE, cleanConditionally |-> TRUE]

NoMetadata ==
  [title |-> << >>, byline |-> << >>, excerpt |-> << >>, siteName |-> << >>, image |-> << >>,
   favicon |-> << >>, publishedTime |-> << >>, modifiedTime |-> << >>]

\* no call of ParseDocument has been made
NotParsing ==
  /\ heap = << >>
  /\ callerDoc = 0
  /\ psDoc = 0
  /\ documentURI = NoBase
  /\ flags = NoFlags
  /\ attempts = << >>
  /\ articleTitle = << >>
  /\ articleByline = << >>
  /\ articleLang = << >>
  /\ metadata = NoMetadata
  /\ articleContent = Nil
  /\ article = EmptyArticle
  /\ err = "nil"
  /\ pc = "idle"
  /\ origDoc = << >>
  /\ ran = << >>
  /\ lengths = << >>
  /\ hadMarks = FALSE
  /\ bylined = << >>
  /\ returned = << >>

Init ==
  /\ cfg \in Parsers
  /\ NotParsing
  /\ call = NoCall
  /\ ret = << >>

\* no clone at all: the handle of the tree itself
CloneShared(hp, h) == [heap |-> hp, handle |-> h]

\* dom.Clone(doc, true) of the tree at handle h: the heap with the copy and
\* the handle of the copy
Clone(hp, h) == [heap |-> Append(hp, CloneTree(<< >>, hp[h], 1, 0)), handle |-> Len(hp) + 1]

\* no clone for the attempt: ps.doc itself
attemptDocInPlace(hp, h) == [heap |-> hp, handle |-> h]

\* doc := dom.Clone(ps.doc, true), the tree an attempt of grabArticle works on
attemptDoc(hp, h) == Clone(hp, h)

\* ParseDocument(doc, pageURL), lines 27-42: the clone and the reset
ParseDocument(doc, pageURL) ==
  /\ pc = "idle"
  /\ LET c == Clone(<< doc >>, 1)
     IN  /\ heap' = c.heap
         /\ psDoc' = c.handle
  /\ callerDoc' = 1
  /\ origDoc' = doc
  /\ articleTitle' = << >>
  /\ articleByline' = << >>
  /\ documentURI' = pageURL
  /\ attempts' = << >>
  /\ flags' = AllFlags
  /\ pc' = "size"
  /\ UNCHANGED << cfg, articleLang, metadata, articleContent, article, err, ran, lengths,
                  hadMarks, bylined >>
  /\ UNCHANGED << call, ret, returned >>

\* the comparison with >= in the place of >
tooLargeAtLimit(d, MaxElemsToParse) ==
  MaxElemsToParse > 0 /\ Len(GetElementsByTagName(d, 1, "*")) >= MaxElemsToParse

\* numTags > ps.MaxElemsToParse, when a maximum is set
tooLarge(d, MaxElemsToParse) ==
  MaxElemsToParse > 0 /\ Len(GetElementsByTagName(d, 1, "*")) > MaxElemsToParse

\* ParseDocument, lines 44-50
SizeCheck ==
  /\ pc = "size"
  /\ IF tooLarge(heap[psDoc], cfg.MaxElemsToParse)
     THEN /\ article' = EmptyArticle
          /\ err' = "documents too large"
          /\ pc' = "done"
     ELSE /\ pc' = "prep"
          /\ UNCHANGED << article, err >>
  /\ UNCHANGED << cfg, heap, callerDoc, psDoc, documentURI, flags, attempts, articleTitle,
                  articleByline, articleLang, metadata, articleContent, origDoc, ran,
                  lengths, hadMarks, bylined >>
  /\ UNCHANGED << call, ret, returned >>

\* ParseDocument, lines 52-69, on ps.doc: the tree and the metadata
prepared(d, disableJSONLD, base) ==
  LET \* ps.getArticleMetadata(jsonLd)
      described(jsonLd, d3) ==
        Then(d3, [d |-> d3, metadata |-> getArticleMetadata(d3, 1, jsonLd, base)])
      \* ps.removeScripts(), ps.prepDocument()
      cleaned(jsonLd, d1) ==
        Then(jsonLd, described(jsonLd, prepDocument(removeScripts(d1, 1), 1)))
      \* ps.getJSONLD()
      read(d1) ==
        Then(d1, cleaned(IF ~disableJSONLD THEN getJSONLD(d1, 1) ELSE EmptyMap, d1))
  IN  read(unwrapNoscriptImages(d, 1))

Prep ==
  /\ pc = "prep"
  /\ \E r \in {prepared(heap[psDoc], cfg.DisableJSONLD, documentURI)} :
        /\ heap' = [heap EXCEPT ![psDoc] = r.d]
        /\ metadata' = r.metadata
        /\ articleTitle' = r.metadata.title
  /\ pc' = "grab"
  /\ UNCHANGED << cfg, callerDoc, psDoc, documentURI, flags, attempts, articleByline,
                  articleLang, articleContent, article, err, origDoc, ran, lengths, hadMarks,
                  bylined >>
  /\ UNCHANGED << call, ret, returned >>

\* the sort by increasing text length
sortAttemptsAscending(list) ==
  LET sorted == SortByKey([i \in DOMAIN list |-> [key |-> 0 - list[i].textLength, at |-> list[i]]])
  IN  [i \in DOMAIN sorted |-> sorted[i].at]

\* sort.Slice(ps.attempts, textLength[i] > textLength[j])
sortAttempts(list) ==
  LET sorted == SortByKey([i \in DOMAIN list |-> [key |-> list[i].textLength, at |-> list[i]]])
  IN  [i \in DOMAIN sorted |-> sorted[i].at]

\* the end of an iteration that clears useWeightClasses before stripUnlikelys
retryGateSwapped(fl, atts, attempt, CharThresholds) ==
  LET pushed == Append(atts, attempt)
      sorted == sortAttempts(pushed)
  IN  IF attempt.textLength < CharThresholds
      THEN IF fl.useWeightClasses
           THEN [flags |-> [fl EXCEPT !.useWeightClasses = FALSE], attempts |-> pushed,
                 return |-> FALSE, articleContent |-> Nil]
           ELSE IF fl.stripUnlikelys
           THEN [flags |-> [fl EXCEPT !.stripUnlikelys = FALSE], attempts |-> pushed,
                 return |-> FALSE, articleContent |-> Nil]
           ELSE IF fl.cleanConditionally
           THEN [flags |-> [fl EXCEPT !.cleanConditionally = FALSE], attempts |-> pushed,
                 return |-> FALSE, articleContent |-> Nil]
           ELSE [flags |-> fl, attempts |-> sorted, return |-> TRUE,
                 articleContent |-> IF sorted[1].textLength = 0 THEN Nil
                                    ELSE sorted[1].articleContent]
      ELSE [flags |-> fl, attempts |-> atts, return |-> TRUE,
            articleContent |-> attempt.articleContent]

\* the end of an iteration that pushes the attempt it accepts as well
retryGatePushing(fl, atts, attempt, CharThresholds) ==
  LET pushed == Append(atts, attempt)
      sorted == sortAttempts(pushed)
  IN  IF attempt.textLength < CharThresholds
      THEN IF fl.stripUnlikelys
           THEN [flags |-> [fl EXCEPT !.stripUnlikelys = FALSE], attempts |-> pushed,
                 return |-> FALSE, articleContent |-> Nil]
           ELSE IF fl.useWeightClasses
           THEN [flags |-> [fl EXCEPT !.useWeightClasses = FALSE], attempts |-> pushed,
                 return |-> FALSE, articleContent |-> Nil]
           ELSE IF fl.cleanConditionally
           THEN [flags |-> [fl EXCEPT !.cleanConditionally = FALSE], attempts |-> pushed,
                 return |-> FALSE, articleContent |-> Nil]
           ELSE [flags |-> fl, attempts |-> sorted, return |-> TRUE,
                 articleContent |-> IF sorted[1].textLength = 0 THEN Nil
                                    ELSE sorted[1].articleContent]
      ELSE [flags |-> fl, attempts |-> pushed, return |-> TRUE,
            articleContent |-> attempt.articleContent]

\* the end of an iteration that runs once more after the last flag is cleared
retryGateOnceMore(fl, atts, attempt, CharThresholds) ==
  LET pushed == Append(atts, attempt)
      sorted == sortAttempts(pushed)
  IN  IF attempt.textLength < CharThresholds
      THEN IF fl.stripUnlikelys
           THEN [flags |-> [fl EXCEPT !.stripUnlikelys = FALSE], attempts |-> pushed,
                 return |-> FALSE, articleContent |-> Nil]
           ELSE IF fl.useWeightClasses
           THEN [flags |-> [fl EXCEPT !.useWeightClasses = FALSE], attempts |-> pushed,
                 return |-> FALSE, articleContent |-> Nil]
           ELSE IF fl.cleanConditionally
           THEN [flags |-> [fl EXCEPT !.cleanConditionally = FALSE], attempts |-> pushed,
                 return |-> FALSE, articleContent |-> Nil]
           ELSE IF Len(pushed) < 5
           THEN [flags |-> fl, attempts |-> pushed, return |-> FALSE, articleContent |-> Nil]
           ELSE [flags |-> fl, attempts |-> sorted, return |-> TRUE,
                 articleContent |-> IF sorted[1].textLength = 0 THEN Nil
                                    ELSE sorted[1].articleContent]
      ELSE [flags |-> fl, attempts |-> atts, return |-> TRUE,
            articleContent |-> attempt.articleContent]

\* the end of an iteration of grabArticle (parser.go 1194-1249): fl and atts
\* are ps.flags and ps.attempts, attempt the content of the iteration and
\* its text length.  return tells whether grabArticle returns, and what
retryGate(fl, atts, attempt, CharThresholds) ==
  LET pushed == Append(atts, attempt)
      sorted == sortAttempts(pushed)
  IN  IF attempt.textLength < CharThresholds
      THEN IF fl.stripUnlikelys
           THEN [flags |-> [fl EXCEPT !.stripUnlikelys = FALSE], attempts |-> pushed,
                 return |-> FALSE, articleContent |-> Nil]
           ELSE IF fl.useWeightClasses
           THEN [flags |-> [fl EXCEPT !.useWeightClasses = FALSE], attempts |-> pushed,
                 return |-> FALSE, articleContent |-> Nil]
           ELSE IF fl.cleanConditionally
           THEN [flags |-> [fl EXCEPT !.cleanConditionally = FALSE], attempts |-> pushed,
                 return |-> FALSE, articleContent |-> Nil]
           ELSE [flags |-> fl, attempts |-> sorted, return |-> TRUE,
                 articleContent |-> IF sorted[1].textLength = 0 THEN Nil
                                    ELSE sorted[1].articleContent]
      ELSE [flags |-> fl, attempts |-> atts, return |-> TRUE,
            articleContent |-> attempt.articleContent]

\* one iteration of the loop of grabArticle
GrabAttempt ==
  /\ pc = "grab"
  /\ \E c \in {attemptDoc(heap, psDoc)} :
     \E r \in {grabAttempt(cfg, flags, articleTitle, articleByline, articleLang,
                           c.heap[c.handle])} :
     \E g \in {retryGate(flags, attempts,
                         [articleContent |-> [doc |-> c.handle, node |-> r.articleContent],
                          textLength |-> r.textLength],
                         cfg.CharThresholds)} :
        IF r.page = 0
        THEN /\ heap' = c.heap
             /\ articleContent' = Nil
             /\ pc' = "finish"
             /\ UNCHANGED << flags, attempts, articleByline, articleLang, ran, lengths,
                             bylined >>
        ELSE /\ heap' = [c.heap EXCEPT ![c.handle] = r.d]
             /\ articleByline' = r.articleByline
             /\ articleLang' = r.articleLang
             /\ flags' = g.flags
             /\ attempts' = g.attempts
             /\ ran' = Append(ran, flags)
             /\ lengths' = Append(lengths, r.textLength)
             /\ bylined' = Append(bylined, r.bylined)
             /\ articleContent' = g.articleContent
             /\ pc' = IF ~g.return THEN "grab"
                      ELSE IF g.articleContent = Nil THEN "finish" ELSE "post"
  /\ UNCHANGED << cfg, callerDoc, psDoc, documentURI, articleTitle, metadata, article, err,
                  origDoc, hadMarks >>
  /\ UNCHANGED << call, ret, returned >>

\* whether an element of the subtree of n carries a score or a table mark
hasMarks(d, n) ==
  \E i \in DOMAIN AllNodes(d, n) :
     LET x == AllNodes(d, n)[i]
     IN  HasAttribute(d, x, "data-readability-score")
         \/ HasAttribute(d, x, "data-readability-table")

\* ParseDocument, lines 77-78
PostProcess ==
  /\ pc = "post"
  /\ heap' = [heap EXCEPT ![articleContent.doc] =
                postProcessContent(@, articleContent.node, cfg, documentURI)]
  /\ hadMarks' = hasMarks(heap[articleContent.doc], articleContent.node)
  /\ pc' = "finish"
  /\ UNCHANGED << cfg, callerDoc, psDoc, documentURI, flags, attempts, articleTitle,
                  articleByline, articleLang, metadata, articleContent, article, err,
                  origDoc, ran, lengths, bylined >>
  /\ UNCHANGED << call, ret, returned >>

\* ParseDocument, lines 80-135: the Article of the content (Nil: none)
buildArticle(hp, content, meta, title, byline, lang) ==
  LET d == hp[content.doc]
      paragraphs == GetElementsByTagName(d, content.node, "p")
      excerpt == IF content # Nil /\ meta.excerpt = << >> /\ Len(paragraphs) > 0
                 THEN TrimSpace(TextContent(d, paragraphs[1])) ELSE meta.excerpt
      finalTextContent == IF content # Nil THEN TrimSpace(TextContent(d, content.node))
                          ELSE << >>
  IN  [Title |-> title,
       Byline |-> IF meta.byline = << >> THEN byline ELSE meta.byline,
       Node |-> IF content # Nil THEN FirstElementChild(d, content.node) ELSE 0,
       Content |-> IF content # Nil THEN InnerHTML(d, content.node) ELSE << >>,
       TextContent |-> finalTextContent,
       Length |-> charCount(finalTextContent),
       Excerpt |-> JoinFields(excerpt),
       SiteName |-> meta.siteName,
       Image |-> meta.image,
       Favicon |-> meta.favicon,
       Language |-> lang,
       PublishedTime |-> getDate(meta, "publishedTime"),
       ModifiedTime |-> getDate(meta, "modifiedTime")]

\* the return of Article{} when there is no content
ReturnEmptyArticle ==
  /\ pc = "finish"
  /\ article' = IF articleContent = Nil THEN EmptyArticle
                ELSE buildArticle(heap, articleContent, metadata, articleTitle, articleByline,
                                  articleLang)
  /\ err' = "nil"
  /\ pc' = "done"
  /\ UNCHANGED << cfg, heap, callerDoc, psDoc, documentURI, flags, attempts, articleTitle,
                  articleByline, articleLang, metadata, articleContent, origDoc, ran,
                  lengths, hadMarks, bylined >>
  /\ UNCHANGED << call, ret, returned >>

\* ParseDocument, lines 80-136
Return ==
  /\ pc = "finish"
  /\ article' = buildArticle(heap, articleContent, metadata, articleTitle, articleByline,
                             articleLang)
  /\ err' = "nil"
  /\ pc' = "done"
  /\ UNCHANGED << cfg, heap, callerDoc, psDoc, documentURI, flags, attempts, articleTitle,
                  articleByline, articleLang, metadata, articleContent, origDoc, ran,
                  lengths, hadMarks, bylined >>
  /\ UNCHANGED << call, ret, returned >>

Next ==
  \/ \E doc \in InputDocuments, pageURL \in {NoBase, BaseURL} : ParseDocument(doc, pageURL)
  \/ SizeCheck
  \/ Prep
  \/ GrabAttempt
  \/ PostProcess
  \/ Return

Spec == Init /\ [][Next]_vars

\* A call that has not returned takes its next step: weak fairness of Next,
\* WF_vars(Next), with its two parts written as what they are equal to in
\* the behaviours of Spec: ENABLED <<Next>>_vars is pc # "done" (every
\* position but "done" has its step, whose guard is the position alone), and
\* <<Next>>_vars is a step that changes pc (every step of Next does, and a
\* step that is not one of Next changes nothing)
FairSpec == Spec /\ ([]<>(pc = "done") \/ []<><<pc' # pc>>_vars)

(***************************************************************************)
(* A Parser used again: ParseDocument is called on the Parser a call has   *)
(* returned from.  returned lists the calls before the current one: the    *)
(* document, the URL and what the call returned.                           *)
(***************************************************************************)
\* how many calls follow the first
MaxReuse == 2

\* the documents of the calls: one without a <body>, one with a language and
\* a long paragraph, one with a byline
ReuseDocuments == {Document(<< >>, FALSE), Document(<< 1, 14 >>, TRUE), BylinePage(LongText)}

\* ParseDocument, lines 27-42, on a Parser that has returned from a call:
\* the fields of the Parser that the lines do not assign are as the call
\* before left them; metadata and articleContent are new locals
ParseDocumentAgain(doc, pageURL) ==
  /\ pc = "done"
  /\ Len(returned) < MaxReuse
  /\ returned' = Append(returned, [doc |-> origDoc, pageURL |-> documentURI,
                                   article |-> article, err |-> err])
  /\ LET c == Clone(<< doc >>, 1)
     IN  /\ heap' = c.heap
         /\ psDoc' = c.handle
  /\ callerDoc' = 1
  /\ origDoc' = doc
  /\ articleTitle' = << >>
  /\ articleByline' = << >>
  /\ documentURI' = pageURL
  /\ attempts' = << >>
  /\ flags' = AllFlags
  /\ metadata' = NoMetadata
  /\ articleContent' = Nil
  /\ ran' = << >>
  /\ lengths' = << >>
  /\ hadMarks' = FALSE
  /\ bylined' = << >>
  /\ pc' = "size"
  /\ UNCHANGED << cfg, articleLang, article, err, call, ret >>

ReuseNext ==
  \/ \E doc \in ReuseDocuments : ParseDocument(doc, BaseURL)
  \/ \E doc \in ReuseDocuments : ParseDocumentAgain(doc, BaseURL)
  \/ SizeCheck
  \/ Prep
  \/ GrabAttempt
  \/ PostProcess
  \/ Return

ReuseSpec == Init /\ [][ReuseNext]_vars

(***************************************************************************)
(* The functions called on their own.  call is the function and its        *)
(* arguments, ret the values returned so far; a function applied again is  *)
(* applied to the value it returned.                                       *)
(***************************************************************************)
parserVars ==
  << cfg, heap, callerDoc, psDoc, documentURI, flags, attempts, articleTitle, articleByline,
     articleLang, metadata, articleContent, article, err, pc, origDoc, ran, lengths, hadMarks,
     bylined, returned >>

\* the URIs toAbsoluteURI is given with the bases of the documents
TestedURIs ==
  {<< >>, HashURI, TinyDataURL, SvgDataURL, AbsoluteURI, RootedURI, RelativeURI,
   DotRelativeURI, SchemeRelativeURI, JavascriptURI, MixedCaseJavascriptURI, BadURI}

\* the scenarios of Test_toAbsoluteURI
Scenarios ==
  {[uri |-> << "#here" >>, expected |-> << "#here" >>],
   [uri |-> << "/test/123" >>, expected |-> << "http://localhost:8080/test/123" >>],
   [uri |-> << "test/123" >>, expected |-> << "http://localhost:8080/absolute/test/123" >>],
   [uri |-> << "//www.google.com" >>, expected |-> << "http://www.google.com" >>],
   [uri |-> << "https://www.google.com" >>, expected |-> << "https://www.google.com" >>],
   [uri |-> << "ftp://ftp.server.com" >>, expected |-> << "ftp://ftp.server.com" >>],
   [uri |-> << "www.google.com" >>,
    expected |-> << "http://localhost:8080/absolute/www.google.com" >>],
   [uri |-> << "http//www.google.com" >>,
    expected |-> << "http://localhost:8080/absolute/http//www.google.com" >>]}

ToAbsoluteURICalls ==
  {[fn |-> "toAbsoluteURI", uri |-> u, base |-> b] :
     u \in TestedURIs, b \in {NoBase, BaseURL, OtherBaseURL}}
  \cup {[fn |-> "toAbsoluteURI", uri |-> s.uri, base |-> TestBaseURL] : s \in Scenarios}

\* the texts of the <title> and of the <h1>s of the documents getArticleTitle
\* is given; the character "emdash" is U+2014
FooText == << Run("F", 1), Run("o", 2) >>

FooTheSite ==
  FooText \o << Run(" ", 1), Run("emdash", 1), Run(" ", 1), Run("T", 1), Run("h", 1),
                Run("e", 1), Run(" ", 1), Run("S", 1), Run("i", 1), Run("t", 1), Run("e", 1) >>

FooDashBar ==
  FooText \o << Run(" ", 1), Run("-", 1), Run(" ", 1), Run("B", 1), Run("a", 1), Run("r", 1) >>

FooColonBar ==
  FooText \o << Run(":", 1), Run(" ", 1), Run("B", 1), Run("a", 1), Run("r", 1) >>

FourWords ==
  << Run("a", 1), Run(" ", 1), Run("b", 1), Run(" ", 1), Run("c", 1), Run(" ", 1), Run("d", 1) >>

FiveWords == FourWords \o << Run(" ", 1), Run("e", 1) >>

Titles == {FooTheSite, FooDashBar, FooColonBar, Word, TitleText}

Headings == {<< >>, << FooText >>, << FourWords >>, << FiveWords >>, << FooText, FiveWords >>}

\* a page with the given <title>, the given <h1>s and a paragraph
TitlePage(title, hOnes) ==
  Page(<< E("title", NoAttrs, << T(title) >>) >>,
       [i \in DOMAIN hOnes |-> E("h1", NoAttrs, << T(hOnes[i]) >>)]
       \o << E("p", NoAttrs, << T(LongText) >>) >>)

GetArticleTitleCalls ==
  {[fn |-> "getArticleTitle", title |-> t, hOnes |-> h, doc |-> TitlePage(t, h)] :
     t \in Titles, h \in Headings}

\* the blocks of the documents CheckDocument is given: what a block is and
\* the length of its text, white space trimmed
CheckBlock(kind, len) == [kind |-> kind, len |-> len]

CheckBlocks ==
  << CheckBlock("p", 139), CheckBlock("p", 140), CheckBlock("p", 240), CheckBlock("p", 241),
     CheckBlock("p", 540), CheckBlock("p", 541), CheckBlock("pre", 540),
     CheckBlock("article", 541), CheckBlock("div with br", 541),
     CheckBlock("unlikely p", 541), CheckBlock("p in li", 541), CheckBlock("hidden p", 541),
     CheckBlock("spaced p", 139) >>

\* the trees of a block; the <div> has a short <p> before its first <br>
BlockTrees(b) ==
  LET text == T(Str("a", b.len))
  IN  CASE b.kind = "p" -> << E("p", NoAttrs, << text >>) >>
        [] b.kind = "pre" -> << E("pre", NoAttrs, << text >>) >>
        [] b.kind = "article" -> << E("article", NoAttrs, << text >>) >>
        [] b.kind = "div with br" ->
             << E("div", NoAttrs,
                  << E("p", NoAttrs, << T(ShortText) >>), E("br", NoAttrs, << >>),
                     T(Str("a", b.len - 30)), E("br", NoAttrs, << >>) >>) >>
        [] b.kind = "unlikely p" -> << E("p", "class" :> << "sidebar" >>, << text >>) >>
        [] b.kind = "p in li" ->
             << E("ul", NoAttrs, << E("li", NoAttrs, << E("p", NoAttrs, << text >>) >>) >>) >>
        [] b.kind = "hidden p" -> << E("p", "style" :> << "display:none" >>, << text >>) >>
        [] b.kind = "spaced p" ->
             << E("p", NoAttrs, << T(<< Run(" ", 1), Run("a", b.len), Run(" ", 1) >>) >>) >>

\* how many blocks a document has at most
MaxNodes == 2

RECURSIVE BlockLists(_)
\* the sequences of at most n blocks
BlockLists(n) ==
  IF n = 0 THEN {<< >>}
  ELSE {<< >>} \cup {<< CheckBlocks[i] >> \o l : i \in DOMAIN CheckBlocks, l \in BlockLists(n - 1)}

RECURSIVE TreesOfBlocks(_)
TreesOfBlocks(blocks) ==
  IF blocks = << >> THEN << >> ELSE BlockTrees(Head(blocks)) \o TreesOfBlocks(Tail(blocks))

CheckDocumentCalls ==
  {[fn |-> "CheckDocument", blocks |-> l, doc |-> Page(<< >>, TreesOfBlocks(l))] :
     l \in BlockLists(MaxNodes)}

\* the texts and trees of the documents clean and cleanConditionally are given
CommaText == << Run("a", 30), Run(",", 10), Run("b", 30) >>

LinkText == << Run("a", 70) >>

VideoSrc == "src" :> << "//www.youtube.com/embed/x" >>

OtherSrc == "src" :> << "x" >>

Img == E("img", NoAttrs, << >>)

Link(s) == E("a", "href" :> RootedURI, << T(s) >>)

\* a table of one cell, with the given attributes
CellTable(attrs, kids) ==
  E("table", attrs, << E("tbody", NoAttrs, << E("tr", NoAttrs, << E("td", NoAttrs, kids) >>) >>) >>)

CleanTrees ==
  {<< E("form", NoAttrs, << E("p", NoAttrs, << T(ShortText) >>), E("input", NoAttrs, << >>),
                            E("input", NoAttrs, << >>) >>) >>,
   << E("form", NoAttrs, << E("p", NoAttrs, << T(CommaText) >>), E("input", NoAttrs, << >>),
                            E("input", NoAttrs, << >>) >>) >>,
   << E("div", NoAttrs, << E("iframe", VideoSrc, << >>), T(Word) >>) >>,
   << E("div", NoAttrs, << E("iframe", OtherSrc, << >>), T(ShortText) >>) >>,
   << E("ul", NoAttrs, << E("li", NoAttrs, << Img >>), E("li", NoAttrs, << Img >>) >>) >>,
   << E("ul", NoAttrs, << E("li", NoAttrs, << Img, E("span", NoAttrs, << T(Word) >>) >>),
                          E("li", NoAttrs, << Img >>) >>) >>,
   << E("ul", NoAttrs, << E("li", NoAttrs, << E("span", NoAttrs, << Img, Img >>) >>),
                          E("li", NoAttrs, << T(Word) >>) >>) >>,
   << E("div", NoAttrs, << E("p", NoAttrs, << T(LongText) >>) >>) >>,
   << E("div", NoAttrs, << T(LinkText), Link(ShortText) >>) >>,
   << E("div", "class" :> << "article" >>, << T(LinkText), Link(ShortText) >>) >>,
   << E("div", "class" :> << "article" >>, << T(Word), Link(ShortText) >>) >>,
   << E("div", "class" :> << "sidebar" >>, << E("p", NoAttrs, << T(LongText) >>) >>) >>,
   << CellTable("data-readability-table" :> << "true" >>,
                << E("div", NoAttrs, << Link(ShortText) >>) >>) >>,
   << CellTable("data-readability-table" :> << "true" >>,
                << E("div", "class" :> << "sidebar" >>,
                     << E("ul", NoAttrs, << E("li", NoAttrs, << Link(ShortText) >>) >>) >>) >>) >>,
   << CellTable(NoAttrs, << E("div", NoAttrs, << Link(ShortText) >>) >>) >>,
   << E("pre", NoAttrs, << E("code", NoAttrs, << E("div", NoAttrs, << Link(ShortText) >>) >>) >>) >>,
   << E("div", NoAttrs, << E("div", NoAttrs, << Link(ShortText) >>), T(ShortText) >>) >>,
   << E("div", NoAttrs, << Link(ShortText) >>), E("div", NoAttrs, << Link(ShortText) >>),
      E("div", NoAttrs, << T(ShortText) >>) >>,
   << E("figure", NoAttrs, << E("div", NoAttrs, << Img, Img, Img >>) >>) >>,
   << E("div", NoAttrs, << Img, Img, Img >>) >>,
   << E("footer", NoAttrs, << E("footer", NoAttrs, << T(Word) >>), E("input", NoAttrs, << >>) >>),
      E("iframe", VideoSrc, << >>), E("iframe", OtherSrc, << >>), E("input", NoAttrs, << >>) >>}

CleanConditionallyCalls ==
  {[fn |-> "cleanConditionally", tag |-> t, flags |-> f, doc |-> Page(<< >>, b)] :
     t \in {"form", "fieldset", "table", "ul", "div"}, f \in {AllFlags, NoFlags},
     b \in CleanTrees}

CleanCalls ==
  {[fn |-> "clean", tag |-> t, flags |-> AllFlags, doc |-> Page(<< >>, b)] :
     t \in {"footer", "iframe", "input"}, b \in CleanTrees}

\* the children of the <div> replaceBrs is given: a <br>, a text, white
\* space, a <b> (phrasing content) or a <div> (not phrasing content)
BrSiblingTree(kind) ==
  CASE kind = "br" -> E("br", NoAttrs, << >>)
    [] kind = "text" -> T(Word)
    [] kind = "space" -> T(Space)
    [] kind = "b" -> E("b", NoAttrs, << T(Word) >>)
    [] kind = "div" -> E("div", NoAttrs, << T(Word) >>)

\* how many children the <div> has at most
MaxSiblings == 5

RECURSIVE BrSiblingLists(_)
BrSiblingLists(n) ==
  IF n = 0 THEN {<< >>}
  ELSE {<< >>} \cup {<< k >> \o l : k \in {"br", "text", "space", "b", "div"},
                                     l \in BrSiblingLists(n - 1)}

\* the example of the comment of replaceBrs: <div>foo<br>bar<br> <br><br>abc</div>
BrExample == << "text", "br", "text", "br", "space", "br", "br", "text" >>

ReplaceBrsCalls ==
  {[fn |-> "replaceBrs", kinds |-> l,
    doc |-> Page(<< >>, << E("div", NoAttrs, [i \in DOMAIN l |-> BrSiblingTree(l[i])]) >>)] :
     l \in BrSiblingLists(MaxSiblings) \cup {BrExample}}

\* the class and id tokens of the strings the two classifiers are given
MatchTokens ==
  {"sidebar", "comment", "footer", "foot", "footnote", "ai2html", "content", "main", "lead"}

\* how many tokens a class+id string has at most
MaxWords == 2

RECURSIVE MatchStrings(_)
MatchStrings(n) ==
  IF n = 0 THEN {<< >>}
  ELSE {<< >>} \cup {<< t >> \o v : t \in MatchTokens, v \in MatchStrings(n - 1)}

MatchStringCalls == {[fn |-> "matchString", s |-> v] : v \in MatchStrings(MaxWords)}

Calls ==
  ToAbsoluteURICalls \cup GetArticleTitleCalls \cup CheckDocumentCalls
  \cup CleanConditionallyCalls \cup CleanCalls \cup ReplaceBrsCalls
  \cup MatchStringCalls

\* how often a function is applied
MaxCalls == 2

UnitInit ==
  /\ cfg = NewParser
  /\ NotParsing
  /\ call \in Calls
  /\ ret = << >>

\* toAbsoluteURI(uri, base), and toAbsoluteURI of what it returned
ToAbsoluteURI ==
  /\ call.fn = "toAbsoluteURI"
  /\ Len(ret) < MaxCalls
  /\ ret' = Append(ret, toAbsoluteURI(IF ret = << >> THEN call.uri ELSE ret[Len(ret)],
                                      call.base))
  /\ UNCHANGED << parserVars, call >>

\* ps.getArticleTitle() with call.doc as ps.doc
GetArticleTitle ==
  /\ call.fn = "getArticleTitle"
  /\ ret = << >>
  /\ ret' = << getArticleTitle(call.doc, 1) >>
  /\ UNCHANGED << parserVars, call >>

\* ps.CheckDocument(doc)
CheckDocumentCall ==
  /\ call.fn = "CheckDocument"
  /\ ret = << >>
  /\ ret' = << CheckDocument(call.doc, 1) >>
  /\ UNCHANGED << parserVars, call >>

\* the <body> of a document
BodyOf(d) == GetElementsByTagName(d, 1, "body")[1]

\* ps.cleanConditionally(body, tag) with call.flags as ps.flags
CleanConditionallyCall ==
  /\ call.fn = "cleanConditionally"
  /\ ret = << >>
  /\ ret' = << cleanConditionallySteps(call.doc, BodyOf(call.doc), call.tag, call.flags) >>
  /\ UNCHANGED << parserVars, call >>

\* ps.clean(body, tag)
CleanCall ==
  /\ call.fn = "clean"
  /\ ret = << >>
  /\ ret' = << cleanSteps(call.doc, BodyOf(call.doc), call.tag, call.flags) >>
  /\ UNCHANGED << parserVars, call >>

\* ps.replaceBrs(body)
ReplaceBrsCall ==
  /\ call.fn = "replaceBrs"
  /\ ret = << >>
  /\ ret' = << replaceBrs(call.doc, BodyOf(call.doc)) >>
  /\ UNCHANGED << parserVars, call >>

\* the test of CheckDocument (parser-check.go 73-77) and the test of
\* grabArticle (parser.go 828-829) on the class+id string call.s
MatchStringCall ==
  /\ call.fn = "matchString"
  /\ ret = << >>
  /\ ret' = << [check |-> rxUnlikelyCandidates(call.s) /\ ~rxOkMaybeItsACandidate(call.s),
                grab |-> IsUnlikelyCandidates(call.s) /\ ~MaybeItsACandidate(call.s)] >>
  /\ UNCHANGED << parserVars, call >>

UnitNext ==
  \/ MatchStringCall
  \/ ToAbsoluteURI
  \/ GetArticleTitle
  \/ CheckDocumentCall
  \/ CleanConditionallyCall
  \/ CleanCall
  \/ ReplaceBrsCall

UnitSpec == UnitInit /\ [][UnitNext]_vars

(***************************************************************************)
(* Properties of ParseDocument.  The trees of a call are, by handle: the   *)
(* caller's tree (callerDoc), ps.doc (psDoc) and, for attempt k of         *)
(* grabArticle, the clone at handle psDoc + k.                             *)
(***************************************************************************)
\* the flags of the attempts, in their order
FlagOrder ==
  << AllFlags,
     [AllFlags EXCEPT !.stripUnlikelys = FALSE],
     [NoFlags EXCEPT !.cleanConditionally = TRUE],
     NoFlags >>

\* grabArticle has returned
GrabReturned == pc \in {"post", "finish"} \/ (pc = "done" /\ err = "nil")

\* the attempts that fell short of CharThresholds, and those that reached it
ShortAttempts == {k \in DOMAIN lengths : lengths[k] < cfg.CharThresholds}

ReachedAttempts == {k \in DOMAIN lengths : lengths[k] >= cfg.CharThresholds}

\* the greatest of the text lengths measured
MaxLength == CHOOSE m \in {lengths[k] : k \in DOMAIN lengths} :
                \A k \in DOMAIN lengths : lengths[k] <= m

\* the number of elements of a tree
ElementCount(d) == Cardinality({i \in DOMAIN d : d[i].type = "elem"})

\* the nodes of the tree d at and below n
RECURSIVE Subtree(_, _)
Subtree(d, n) == {n} \cup UNION {Subtree(d, d[n].kids[i]) : i \in DOMAIN d[n].kids}

\* the text length of the content c of the heap hp, with the white space
\* normalised: the characters of the text nodes below it, in their order
ContentLength(hp, c) == charCount(getInnerText(hp[c.doc], c.node, TRUE))

\* C1: from the moment ParseDocument is called, and after it has returned
\* with an article or with an error, the tree the caller passed is what it
\* was when the call was made, node for node and attribute for attribute
CallerTreeUnchanged == pc # "idle" => heap[callerDoc] = origDoc

\* a call has returned an article from a working clone that no longer is
\* the caller's tree
CallerTreeWitness ==
  pc = "done" /\ err = "nil" /\ articleContent # Nil /\ heap[psDoc] # origDoc

\* C2: attempt k of a call runs with the first k - 1 flags cleared, in the
\* order stripUnlikelys, useWeightClasses, cleanConditionally; the flags
\* start all set, one is cleared by each attempt that falls short of
\* CharThresholds, and within the call no flag goes from cleared to set
FlagsClearedInOrder ==
  /\ [](pc # "idle" =>
          /\ \A k \in DOMAIN ran : ran[k] = FlagOrder[k]
          /\ flags = FlagOrder[Min(4, 1 + Cardinality(ShortAttempts))])
  /\ [][pc # "idle" => \A f \in DOMAIN flags : flags'[f] => flags[f]]_vars

\* a call has run its four attempts and has cleared the three flags
FlagsClearedWitness == pc = "done" /\ ran = FlagOrder /\ flags = NoFlags

\* C3: an attempt whose text length is at least CharThresholds is the last
\* one: grabArticle returns its content, does not push it onto ps.attempts
\* and clears no flag, so that the content returned is that of the earliest
\* attempt that reached the threshold
AcceptedAtOnce ==
  /\ pc = "grab" => ReachedAttempts = {}
  /\ (GrabReturned /\ ReachedAttempts # {}) =>
        /\ ReachedAttempts = {Len(lengths)}
        /\ articleContent # Nil
        /\ articleContent.doc = psDoc + Len(lengths)
        /\ Len(attempts) = Len(lengths) - 1
        /\ \A i \in DOMAIN attempts :
              /\ attempts[i].textLength = lengths[i]
              /\ attempts[i].articleContent.doc = psDoc + i
        /\ flags = FlagOrder[Len(lengths)]

\* the second attempt reached a threshold that the first had missed
AcceptedAtOnceWitness ==
  pc = "post" /\ Len(lengths) = 2 /\ ReachedAttempts = {2} /\ cfg.CharThresholds > 0

\* C4: when the four attempts all fall short of CharThresholds, grabArticle
\* returns the content of an attempt of ps.attempts whose text length is
\* the greatest of the four, and returns nil exactly when that length is 0
LongestAttemptReturned ==
  (GrabReturned /\ Cardinality(ShortAttempts) = 4) =>
     /\ Len(attempts) = 4
     /\ IF MaxLength = 0 THEN articleContent = Nil
        ELSE /\ articleContent # Nil
             /\ lengths[articleContent.doc - psDoc] = MaxLength
             /\ \E i \in DOMAIN attempts :
                   /\ attempts[i].articleContent = articleContent
                   /\ attempts[i].textLength = MaxLength

\* the four attempts fell short with different lengths, the first of them
\* not the longest
LongestAttemptWitness ==
  /\ pc = "post" /\ Cardinality(ShortAttempts) = 4
  /\ lengths[1] < MaxLength

\* C5: grabArticle returns: a call runs at most four attempts, ps.attempts
\* never holds more than four of them, and the loop of grabArticle is left
GrabArticleTerminates ==
  /\ [](Len(ran) <= 4 /\ Len(attempts) <= 4)
  /\ (pc = "grab") ~> (pc \in {"post", "finish"})

\* the loop has run four times and has saved four attempts
FourAttemptsWitness == pc \in {"post", "finish"} /\ Len(ran) = 4 /\ Len(attempts) = 4

\* C6: the content that grabArticle returns has a child element with the
\* id readability-page-1 and the class page
PageEnvelope ==
  pc = "post" =>
    \E i \in DOMAIN heap[articleContent.doc][articleContent.node].kids :
       LET child == heap[articleContent.doc][articleContent.node].kids[i]
       IN  /\ heap[articleContent.doc][child].type = "elem"
           /\ GetAttribute(heap[articleContent.doc], child, "id") = << "readability-page-1" >>
           /\ GetAttribute(heap[articleContent.doc], child, "class") = << "page" >>

\* C7: ParseDocument returns the error, with the empty Article and before
\* any step of the extraction, exactly when MaxElemsToParse is positive and
\* the document has more elements than that: a document of exactly
\* MaxElemsToParse elements passes, and so does every document when
\* MaxElemsToParse is 0
SizeLimit ==
  /\ err # "nil" =>
        /\ pc = "done"
        /\ cfg.MaxElemsToParse > 0 /\ ElementCount(origDoc) > cfg.MaxElemsToParse
        /\ article = EmptyArticle
        /\ heap[psDoc] = origDoc /\ Len(heap) = 2 /\ ran = << >>
  /\ (pc \notin {"idle", "size"} /\ err = "nil") =>
        cfg.MaxElemsToParse = 0 \/ ElementCount(origDoc) <= cfg.MaxElemsToParse

\* a document of exactly MaxElemsToParse elements has passed the check
SizeLimitWitness ==
  /\ pc = "prep" /\ cfg.MaxElemsToParse > 0
  /\ ElementCount(origDoc) = cfg.MaxElemsToParse

\* C8: when grabArticle returns nil, ParseDocument returns a nil error and
\* an Article with empty Content and TextContent, Length 0 and no Node,
\* whose other fields hold the metadata of the page
UnreadableArticle ==
  (pc = "done" /\ err = "nil" /\ articleContent = Nil) =>
     /\ article.Content = << >> /\ article.TextContent = << >>
     /\ article.Length = 0 /\ article.Node = 0
     /\ article.Title = metadata.title
     /\ article.Byline = (IF metadata.byline # << >> THEN metadata.byline ELSE articleByline)
     /\ article.Excerpt = JoinFields(metadata.excerpt)
     /\ article.SiteName = metadata.siteName
     /\ article.Image = metadata.image
     /\ article.Favicon = metadata.favicon
     /\ article.PublishedTime = getDate(metadata, "publishedTime")
     /\ article.ModifiedTime = getDate(metadata, "modifiedTime")

\* a page with a title and a description and no content
UnreadableWitness ==
  /\ pc = "done" /\ err = "nil" /\ articleContent = Nil
  /\ article.Title # << >> /\ article.Excerpt # << >>

\* C9, as the specification states it: the text length measured for the
\* attempt whose content is returned is the text length of that content
\* after postProcessContent
MeasuredAfterPostProcessing ==
  (pc = "finish" /\ articleContent # Nil) =>
     lengths[articleContent.doc - psDoc] = ContentLength(heap, articleContent)

\* C9: the text length that decides on an attempt is measured in
\* grabArticle, on the content as prepArticle and the page envelope leave
\* it and before postProcessContent runs
MeasuredBeforePostProcessing ==
  /\ pc = "post" => lengths[articleContent.doc - psDoc] = ContentLength(heap, articleContent)
  /\ pc \in {"grab", "post"} =>
        \A i \in DOMAIN attempts :
           attempts[i].textLength = ContentLength(heap, attempts[i].articleContent)

\* the content returned, whose text is shorter once post-processed
MeasuredBeforeWitness ==
  /\ pc = "post"
  /\ charCount(getInnerText(postProcessContent(heap[articleContent.doc], articleContent.node,
                                                cfg, documentURI),
                             articleContent.node, TRUE))
       # lengths[articleContent.doc - psDoc]

\* C10: after postProcessContent no node of the content returned, the
\* container included, has a data-readability-score or a
\* data-readability-table attribute
NoBookkeepingLeft ==
  (pc \in {"finish", "done"} /\ articleContent # Nil) =>
     \A n \in Subtree(heap[articleContent.doc], articleContent.node) :
        /\ "data-readability-score" \notin DOMAIN heap[articleContent.doc][n].attrs
        /\ "data-readability-table" \notin DOMAIN heap[articleContent.doc][n].attrs

\* the content carried scores or table marks when postProcessContent began
NoBookkeepingWitness == pc = "finish" /\ articleContent # Nil /\ hadMarks

\* the elements with the given tag in the content returned
Returned(tag) ==
  IF pc = "done" /\ err = "nil" /\ articleContent # Nil
  THEN {n \in Subtree(heap[articleContent.doc], articleContent.node) :
          TagName(heap[articleContent.doc], n) = tag}
  ELSE {}

\* the value of the attribute k of the node n of the content returned
ReturnedAttribute(n, k) == GetAttribute(heap[articleContent.doc], n, k)

\* C11: whatever base URL the caller passes, none included, the href of
\* every <a> of the subtree returned is absent, a "#" fragment, a data: URL
\* or an absolute URL, and none begins with "javascript:"
HrefsAbsolute ==
  \A a \in Returned("a") :
     LET href == ReturnedAttribute(a, "href")
     IN  /\ \/ href = << >>
            \/ HasHashPrefix(href)
            \/ HasDataPrefix(href)
            \/ IsAbsoluteURI(href)
         /\ ~HasJavascriptPrefix(href)

\* a relative URI that cannot be resolved against base: it does not parse,
\* or there is no base
Unresolvable(uri, base) ==
  /\ uri # << >>
  /\ ~HasHashPrefix(uri)
  /\ ~HasDataPrefix(uri)
  /\ \/ Parse(uri).err
     \/ Parse(uri).url.Scheme = "" /\ base = NoBase

\* C12: a relative URI of href, src or poster that cannot be resolved
\* against the base URL (it does not parse, or there is no base) is not left
\* in place: post-processing removes the attribute from the element
UnresolvedRemoved ==
  \A tag \in {"a", "img", "video"} : \A n \in Returned(tag) :
     \A k \in {"href", "src", "poster"} : ~Unresolvable(ReturnedAttribute(n, k), documentURI)
\* the tree at and below n: its node and the trees of its children, in order
RECURSIVE TreeAt(_, _)
TreeAt(d, n) ==
  [type |-> d[n].type, tag |-> d[n].tag, attrs |-> d[n].attrs, text |-> d[n].text,
   kids |-> [i \in DOMAIN d[n].kids |-> TreeAt(d, d[n].kids[i])]]

\* the content ParseDocument post-processed, post-processed once more
PostProcessedAgain ==
  postProcessContent(heap[articleContent.doc], articleContent.node, cfg, documentURI)

\* C13: postProcessContent is idempotent: applied to the content it has
\* already processed it leaves the same tree (nodes, tags, attributes and
\* order), and a second simplifyNestedElements finds no <div> or <section>
\* to remove or to hoist
PostProcessIdempotent ==
  (pc = "finish" /\ articleContent # Nil) =>
     /\ TreeAt(PostProcessedAgain, articleContent.node)
          = TreeAt(heap[articleContent.doc], articleContent.node)
     /\ TreeAt(simplifyNestedElements(heap[articleContent.doc], articleContent.node),
               articleContent.node)
          = TreeAt(heap[articleContent.doc], articleContent.node)
\* the URI has a scheme and a host
HasSchemeAndHost(uri) == ~Parse(uri).err /\ Parse(uri).url.Scheme # "" /\ Parse(uri).url.Host # ""

\* the URI is a reference without a scheme that url.Parse reads: a path,
\* rooted or not, or "//" and a host
IsRelativeReference(uri) ==
  uri # << >> /\ ~HasHashPrefix(uri) /\ ~HasDataPrefix(uri) /\ ~Parse(uri).err
  /\ Parse(uri).url.Scheme = ""

\* C14: toAbsoluteURI(uri, base) is uri when uri begins with "#" or "data:"
\* or has a scheme and a host; a path-absolute, path-relative or
\* scheme-relative uri comes back absolute, with the scheme of the base, as
\* the scenarios of Test_toAbsoluteURI expect it; and toAbsoluteURI of the
\* value returned, with the same base, is that value
ToAbsoluteURIResolves ==
  (call.fn = "toAbsoluteURI" /\ ret # << >>) =>
     /\ (call.uri # << >>
         /\ (HasHashPrefix(call.uri) \/ HasDataPrefix(call.uri) \/ HasSchemeAndHost(call.uri)))
           => ret[1] = call.uri
     /\ (IsRelativeReference(call.uri) /\ call.base # NoBase)
           => /\ HasSchemeAndHost(ret[1])
              /\ Parse(ret[1]).url.Scheme = Parse(<< call.base >>).url.Scheme
              /\ Parse(ret[1]).url.rooted \/ Parse(ret[1]).url.Path = << >>
     /\ call.base = TestBaseURL
           => \E s \in Scenarios : s.uri = call.uri /\ s.expected = ret[1]
     /\ (Len(ret) = 2 /\ call.base # NoBase) => ret[2] = ret[1]

\* a relative reference was resolved, and the result was resolved once more
ToAbsoluteURIWitness ==
  /\ call.fn = "toAbsoluteURI"
  /\ call.base = BaseURL
  /\ call.uri = DotRelativeURI
  /\ ret = << AbsoluteURI, AbsoluteURI >>
\* the readability-page-1 containers of the content returned
PageContainers == {n \in Returned("div") : ReturnedAttribute(n, "id") = << "readability-page-1" >>}

\* C15: with KeepClasses false and whatever ClassesToPreserve the caller
\* gives, the empty list and lists without "page" included, the
\* readability-page-1 container of the subtree returned still has the class
\* "page", and no class outside the preserve set is left on any element
PageClassKept ==
  ~cfg.KeepClasses =>
     /\ \A n \in PageContainers : Contains(ReturnedAttribute(n, "class"), "page")
     /\ \A tag \in {"div", "p"} : \A n \in Returned(tag) :
           \A i \in DOMAIN ReturnedAttribute(n, "class") :
              \/ ReturnedAttribute(n, "class")[i] = "page"
              \/ Contains(cfg.ClassesToPreserve, ReturnedAttribute(n, "class")[i])
\* getArticleTitle looks for the <h1>: the <title> has fewer than 15
\* characters and the page has exactly one <h1>
ShortTitleOneHeading ==
  /\ call.fn = "getArticleTitle"
  /\ ret # << >>
  /\ charCount(call.title) < 15
  /\ Len(call.hOnes) = 1

\* C16 as stated: for the <title> "Foo - The Site" (with U+2014) and the one
\* <h1> "Foo" the title is "Foo", and whenever the <title> has fewer than 15
\* characters and there is exactly one <h1>, the title is the text of that <h1>
TitleIsHeading == ShortTitleOneHeading => ret[1] = call.hOnes[1]

\* C16: when the <title> has fewer than 15 characters, no separator between
\* spaces and no ": ", and there is exactly one <h1>, the title is the text
\* of that <h1> if it has more than four words and the <title> otherwise;
\* for "Foo - The Site" (with U+2014) and <h1>Foo</h1> it is the <title>
TitleIsLongHeading ==
  (/\ ShortTitleOneHeading
   /\ ~HasSeparator(call.title, TitleSeparators)
   /\ ~HasColonSpace(call.title))
    => ret[1] = IF wordCount(call.hOnes[1]) > 4 THEN call.hOnes[1] ELSE call.title

\* the title of the page with "Foo - The Site" and <h1>Foo</h1> was taken
TitleIsLongHeadingWitness ==
  /\ ShortTitleOneHeading
  /\ call.title = FooTheSite
  /\ call.hOnes = << FooText >>
  /\ ret = << FooTheSite >>
\* the dateModified of the JSON-LD of the document d, << >> when it has none
DateModifiedOf(d) ==
  LET fields == {d[n].attrs["json"] : n \in {i \in DOMAIN d : HasAttribute(d, i, "json")}}
  IN  IF \E f \in fields : IsJString(f, "dateModified")
      THEN (CHOOSE f \in fields : IsJString(f, "dateModified"))["dateModified"].v
      ELSE << >>

\* the content of <meta property="article:modified_time"> of the document d
ModifiedTimeOf(d) ==
  LET metas == {i \in DOMAIN d : /\ TagName(d, i) = "meta"
                                  /\ GetAttribute(d, i, "property") = << "article:modified_time" >>}
  IN  IF metas = {} THEN << >> ELSE GetAttribute(d, CHOOSE i \in metas : TRUE, "content")

\* C17: with JSON-LD enabled and a dateModified in the JSON-LD object, the
\* modified time of the article is that dateModified, in preference to the
\* <meta> value article:modified_time; the <meta> value is used only when
\* the JSON-LD supplies none
ModifiedTimeFromJSONLD ==
  (pc = "done" /\ err = "nil" /\ origDoc \in DatedPages) =>
     article.ModifiedTime = IF ~cfg.DisableJSONLD /\ DateModifiedOf(origDoc) # << >>
                            THEN DateModifiedOf(origDoc)
                            ELSE ModifiedTimeOf(origDoc)
\* CheckDocument has returned
Checked == call.fn = "CheckDocument" /\ ret # << >>

\* the <div>s of d with a <br> among their children
DivsWithBr(d) ==
  {n \in DOMAIN d : /\ TagName(d, n) = "div"
                     /\ \E i \in DOMAIN d[n].kids : TagName(d, d[n].kids[i]) = "br"}

\* the nodes of d with one of the tags
Tagged(d, tags) == {n \in DOMAIN d : IsElement(d, n) /\ d[n].tag \in tags}

RECURSIVE InOrder(_, _)
\* the nodes of the set, by their place in the document (the arena of a
\* document that was parsed is in document order)
InOrder(d, nodes) ==
  IF nodes = {} THEN << >>
  ELSE LET first == CHOOSE n \in nodes : \A m \in nodes : n <= m
       IN  << first >> \o InOrder(d, nodes \ {first})

\* C18 as stated: the nodes CheckDocument scores are every <p>, <pre> and
\* <article> and every <div> with a <br> child, each once, in document order
NodesInDocumentOrder ==
  Checked =>
     ret[1].nodeList
       = InOrder(call.doc, Tagged(call.doc, {"p", "pre", "article"}) \cup DivsWithBr(call.doc))

\* where finder meets the node it lists: a <p> or <pre> at the node itself,
\* a <div> at its first <br> child
MetAt(d, n) ==
  IF TagName(d, n) = "div"
  THEN CHOOSE b \in DOMAIN d :
          /\ d[b].parent = n /\ TagName(d, b) = "br"
          /\ \A c \in DOMAIN d : (d[c].parent = n /\ TagName(d, c) = "br") => b <= c
  ELSE n

\* C18: the nodes CheckDocument scores are every <p> and <pre> and every
\* <div> with at least one <br> child, and no <article>; each is listed
\* once, a <p> or <pre> at its place in the document and a <div> at the
\* place of its first <br> child
NodesAsMet ==
  Checked =>
     LET nodeList == ret[1].nodeList
         wanted == Tagged(call.doc, {"p", "pre"}) \cup DivsWithBr(call.doc)
     IN  /\ {nodeList[i] : i \in DOMAIN nodeList} = wanted
         /\ Len(nodeList) = Cardinality(wanted)
         /\ \A i, j \in DOMAIN nodeList :
               i < j => MetAt(call.doc, nodeList[i]) < MetAt(call.doc, nodeList[j])

\* a <div> with two <br>s was listed once, after the <p> it holds, and an
\* <article> was not listed
NodesAsMetWitness ==
  /\ Checked
  /\ call.blocks = << CheckBlock("div with br", 541), CheckBlock("article", 541) >>
  /\ Len(ret[1].nodeList) = 2
  /\ TagName(call.doc, ret[1].nodeList[2]) = "div"
  /\ call.doc[ret[1].nodeList[1]].parent = ret[1].nodeList[2]

\* the blocks whose node the callback of someNode does not skip
Scored(b) == b.kind \in {"p", "pre", "div with br", "spaced p"} /\ b.len >= 140

RECURSIVE Excess(_)
\* len - 140 of the blocks that are scored, in their order
Excess(blocks) ==
  IF blocks = << >> THEN << >>
  ELSE (IF Scored(Head(blocks)) THEN << Head(blocks).len - 140 >> ELSE << >>)
       \o Excess(Tail(blocks))

\* the whole part of the square root of a, and the root rounded up
RootDown(a) == CHOOSE r \in 0..47 : r * r <= a /\ a < (r + 1) * (r + 1)

RootUp(a) == IF RootDown(a) * RootDown(a) = a THEN RootDown(a) ELSE RootDown(a) + 1

RECURSIVE SumDown(_, _)
SumDown(q, k) == IF k = 0 THEN 0 ELSE RootDown(q[k]) + SumDown(q, k - 1)

RECURSIVE SumUp(_, _)
SumUp(q, k) == IF k = 0 THEN 0 ELSE RootUp(q[k]) + SumUp(q, k - 1)

\* sqrt(a) + sqrt(b) > 20, in integers
TogetherAbove20(a, b) == a + b > 400 \/ 4 * a * b > (400 - a - b) * (400 - a - b)

\* C19: CheckDocument returns true iff the sum of sqrt(len - 140), taken in
\* order over the nodes it does not skip and whose trimmed text has at least
\* 140 characters, exceeds 20 at some node, where it stops; a shorter node
\* adds nothing; with one such node of length L it returns true iff
\* L - 140 > 400, and with none it returns false
SqrtScoreDecides ==
  Checked =>
     LET q == Excess(call.blocks)
         r == ret[1]
     IN  /\ q = << >> => ~r.result
         /\ Len(q) = 1 => (r.result <=> q[1] > 400)
         /\ Len(q) = 2 => (r.result <=> (q[1] > 400 \/ TogetherAbove20(q[1], q[2])))
         /\ (\E k \in DOMAIN q : SumDown(q, k) > 20) => r.result
         /\ (\A k \in DOMAIN q : SumUp(q, k) <= 20) => ~r.result
         /\ r.result => /\ r.scores[Len(r.scores)] > 20 * SqrtScale
                        /\ \A i \in 1..(Len(r.scores) - 1) : r.scores[i] <= 20 * SqrtScale
         /\ ~r.result => Len(r.scores) = Len(r.nodeList)

\* two nodes of 240 and 241 characters were scored: neither reaches 20
\* alone, together they exceed it
SqrtScoreWitness ==
  /\ Checked
  /\ call.blocks = << CheckBlock("p", 240), CheckBlock("p", 241) >>
  /\ ret[1].result
  /\ Len(ret[1].scores) = 2
\* a node of the tree d, attached or not, carries a content score or a
\* data-table mark
Marked(d) ==
  \E n \in DOMAIN d : \/ HasAttribute(d, n, "data-readability-score")
                       \/ HasAttribute(d, n, "data-readability-table")

\* C20: an iteration of grabArticle works on a tree of its own, a new clone
\* of ps.doc: it leaves ps.doc and the tree of every earlier attempt as they
\* were, so the removals, the new tags, the scores and the table marks of
\* one attempt are in no tree a later attempt starts from
FreshCloneEachAttempt ==
  [][pc = "grab" =>
       /\ Len(heap') = Len(heap) + 1
       /\ \A h \in DOMAIN heap : heap'[h] = heap[h]
       /\ ~Marked(heap'[psDoc])
       /\ articleContent' # Nil => articleContent'.doc \notin {callerDoc, psDoc}]_vars

\* a second attempt has run although the first left scores and removals
\* in the tree it worked on
FreshCloneWitness ==
  /\ Len(ran) >= 2
  /\ Marked(heap[psDoc + 1])
  /\ ~Marked(heap[psDoc])
  /\ Len(heap[psDoc + 1]) # Len(heap[psDoc])
  /\ heap[psDoc + 2] # heap[psDoc + 1]

(***************************************************************************)
(* Properties of clean and cleanConditionally, called on their own.        *)
(***************************************************************************)
CleanedConditionally == call.fn = "cleanConditionally" /\ ret # << >>

\* the node is detached from the tree the call left
RemovedBy(r, node) == r.d[node].parent = 0

\* the elements cleanConditionally(body, tag) matches in the document given
MatchedElements == GetElementsByTagName(call.doc, BodyOf(call.doc), call.tag)

\* the element is one the conditions are applied to: no marked data table,
\* none among its ancestors, no <code> up to three levels above it, and a
\* class weight of 0 or more
WeighedElement(d, node, tag, fl) ==
  /\ ~(tag = "table" /\ HasAttribute(d, node, "data-readability-table"))
  /\ ~hasAncestorTag(d, node, "table", 0 - 1, TRUE)
  /\ ~hasAncestorTag(d, node, "code", 3, FALSE)
  /\ getClassWeight(d, node, fl) >= 0

CountOf(d, node, tag) == Len(GetElementsByTagName(d, node, tag))

\* at least one of the seven conditions holds of the node
SevenConditions(d, node, tag, fl) ==
  LET p == CountOf(d, node, "p")
      img == CountOf(d, node, "img")
      li == CountOf(d, node, "li") - 100
      input == CountOf(d, node, "input")
      embeds == CountOf(d, node, "object") + CountOf(d, node, "embed")
                + CountOf(d, node, "iframe")
      weight == getClassWeight(d, node, fl)
      ld == getLinkDensity(d, node)
      hd == getTextDensity(d, node, {"h1", "h2", "h3", "h4", "h5", "h6"})
      len == charCount(getInnerText(d, node, TRUE))
      list == isListNode(d, node, tag)
      figure == hasAncestorTag(d, node, "figure", 3, FALSE)
  IN  \/ img > 1 /\ 2 * p < img /\ ~figure
      \/ ~list /\ li > p
      \/ 3 * input > p - (p % 3)
      \/ ~list /\ 10 * hd.num < 9 * hd.den /\ len < 25 /\ (img = 0 \/ img > 2) /\ ~figure
      \/ ~list /\ weight < 25 /\ 5 * ld.num > ld.den
      \/ weight >= 25 /\ 2 * ld.num > ld.den
      \/ (embeds = 1 /\ len < 75) \/ embeds > 1

\* each <li> of the list holds exactly one child, an image
OneImagePerItem(d, node) ==
  \A i \in DOMAIN Children(d, node) :
     LET li == Children(d, node)[i]
     IN  TagName(d, li) = "li" =>
           /\ Len(Children(d, li)) = 1
           /\ TagName(d, Children(d, li)[1]) = "img"

\* no child of the list has more than one child, and the list holds as
\* many images as items
ImagesAsItems(d, node) ==
  /\ \A i \in DOMAIN Children(d, node) : Len(Children(d, Children(d, node)[i])) <= 1
  /\ CountOf(d, node, "img") = CountOf(d, node, "li")

\* the node has fewer than ten commas and no embed of a video
FewCommasNoVideo(d, node) ==
  /\ getCharCount(d, node, ",") < 10
  /\ \A t \in {"object", "embed", "iframe"} :
        \A i \in DOMAIN GetElementsByTagName(d, node, t) :
           ~matchesVideo(d, GetElementsByTagName(d, node, t)[i], t = "object")

InDataTable(d, node, tag) ==
  \/ tag = "table" /\ HasAttribute(d, node, "data-readability-table")
  \/ \E i \in DOMAIN getNodeAncestors(d, node, 0) :
        LET a == getNodeAncestors(d, node, 0)[i]
        IN  TagName(d, a) = "table" /\ HasAttribute(d, a, "data-readability-table")

\* C22: cleanConditionally removes no matched table that carries the
\* data-table mark and no matched element with a marked table among its
\* ancestors, whatever its class weight, link density or length; and with
\* the flag off it leaves the tree as it was
DataTablesKept ==
  CleanedConditionally =>
    /\ \A i \in DOMAIN MatchedElements :
          InDataTable(call.doc, MatchedElements[i], call.tag) =>
            /\ ret[1].d[MatchedElements[i]].parent = call.doc[MatchedElements[i]].parent
            /\ \A j \in DOMAIN ret[1].seen :
                  ret[1].seen[j].node = MatchedElements[i] => ~ret[1].seen[j].remove
    /\ ~call.flags.cleanConditionally => ret[1].d = call.doc

\* a <div> of negative class weight in a marked table was matched with the
\* flag on and is still in its cell
DataTablesKeptWitness ==
  /\ CleanedConditionally
  /\ call.flags.cleanConditionally
  /\ call.tag = "div"
  /\ \E i \in DOMAIN MatchedElements :
        /\ InDataTable(call.doc, MatchedElements[i], call.tag)
        /\ getClassWeight(call.doc, MatchedElements[i], call.flags) < 0
        /\ ret[1].d[MatchedElements[i]].parent # 0
        /\ \E j \in DOMAIN ret[1].seen : ret[1].seen[j].node = MatchedElements[i]

\* clean or cleanConditionally has returned, having listed its elements
Cleaned ==
  /\ call.fn \in {"clean", "cleanConditionally"}
  /\ ret # << >>
  /\ call.fn = "cleanConditionally" => call.flags.cleanConditionally

\* where the node is in the list of the matched elements (0: nowhere)
ListedAt(node) ==
  IF \E i \in DOMAIN MatchedElements : MatchedElements[i] = node
  THEN CHOOSE i \in DOMAIN MatchedElements : MatchedElements[i] = node
  ELSE 0

\* the calls of the filter on the node
SeenAt(node) == {j \in DOMAIN ret[1].seen : ret[1].seen[j].node = node}

\* the nodes above the node in the tree d
AncestorsIn(d, node) ==
  {getNodeAncestors(d, node, 0)[i] : i \in DOMAIN getNodeAncestors(d, node, 0)}

\* C26: clean and cleanConditionally walk the list collected beforehand
\* from its last element to its first; of two listed elements one below the
\* other, the lower one is decided, and removed if so decided, before the
\* filter is called on the upper one; the filter is called exactly once on
\* every listed element, whatever was removed before
WalkedLastToFirst ==
  Cleaned =>
    LET seen == ret[1].seen
    IN  /\ \A i \in DOMAIN MatchedElements : Cardinality(SeenAt(MatchedElements[i])) = 1
        /\ Len(seen) = Len(MatchedElements)
        /\ \A j \in DOMAIN seen : seen[j].node = MatchedElements[Len(seen) + 1 - j]
        /\ \A j, k \in DOMAIN seen :
              seen[j].node \in AncestorsIn(call.doc, seen[k].node) =>
                /\ k < j
                /\ seen[k].remove <=> seen[j].d[seen[k].node].parent = 0
        /\ \A j \in DOMAIN seen : seen[j].remove <=> ret[1].d[seen[j].node].parent = 0

\* a listed element below another listed element was removed, and the upper
\* one, which the filter would have removed from the tree as it was given,
\* was kept
WalkedLastToFirstWitness ==
  /\ Cleaned
  /\ \E j, k \in DOMAIN ret[1].seen :
        /\ ret[1].seen[j].node \in AncestorsIn(call.doc, ret[1].seen[k].node)
        /\ ret[1].seen[k].remove
        /\ ~ret[1].seen[j].remove
        /\ removeFilter(call.doc, ret[1].seen[j].node, "cleanConditionally", call.tag, call.flags)

(***************************************************************************)
(* Properties of the byline.  bylined[k] lists the elements checkByline    *)
(* returned true for in attempt k: the node, the tree it was in and        *)
(* ps.articleByline before the call.                                       *)
(***************************************************************************)
\* the element passes the tests of the walk that come before checkByline
PassedVisibility(d, node) ==
  /\ isProbablyVisible(d, node)
  /\ ~(GetAttribute(d, node, "aria-modal") = << "true" >>
       /\ GetAttribute(d, node, "role") = << "dialog" >>)

\* C23: in one pass of the grabber the byline is assigned at most once:
\* only while it is empty, only for an element that is visible and no modal
\* dialog, and only when the trimmed text of the element has 1 to 99
\* characters; no later element changes it, and the element that set it is
\* out of the working tree
BylineSetOnce ==
  \A k \in DOMAIN bylined :
     /\ Len(bylined[k]) <= 1
     /\ \A i \in DOMAIN bylined[k] :
           LET b == bylined[k][i]
               nChar == charCount(TrimSpace(TextContent(b.d, b.node)))
           IN  /\ b.before = << >>
               /\ PassedVisibility(b.d, b.node)
               /\ nChar >= 1 /\ nChar <= 99
               /\ articleByline # << >>
               /\ articleByline = NormalizeSpaces(TrimSpace(TextContent(b.d, b.node)))
               /\ heap[psDoc + k][b.node].parent = 0

\* an element set the byline although a hidden element and an element with
\* a longer text came before it, and an element that could have been the
\* byline came after it and is still in the tree
BylineSetOnceWitness ==
  /\ bylined # << >>
  /\ Len(bylined[1]) = 1
  /\ origDoc \in BylinePages
  /\ articleByline = Word
  /\ LET b == bylined[1][1]
     IN  \E n \in DOMAIN b.d :
            /\ n > b.node
            /\ b.d[n].type = "elem"
            /\ checkByline(b.d, n, ClassName(b.d, n) \o ID(b.d, n), << >>)
            /\ PassedVisibility(b.d, n)
            /\ heap[psDoc + 1][n].parent # 0

\* C27: the byline is not reset between the attempts of one call: once an
\* element set it in attempt k, checkByline is true of no element of the
\* later attempts, which leave the byline as it is and drop no element as a
\* byline, the one attempt k dropped included
BylineKeptAcrossAttempts ==
  \A k \in DOMAIN bylined :
     bylined[k] # << >> =>
       \A j \in DOMAIN bylined :
          j > k =>
            /\ bylined[j] = << >>
            /\ articleByline = bylineText(bylined[k][1].d, bylined[k][1].node)

\* the element that set the byline in the first attempt is in the content
\* the call returned from a later attempt
BylineKeptWitness ==
  /\ pc = "done"
  /\ Len(bylined) >= 2
  /\ bylined[1] # << >>
  /\ articleContent # Nil
  /\ articleContent.doc > psDoc + 1
  /\ \E i \in DOMAIN AllNodes(heap[articleContent.doc], articleContent.node) :
        AllNodes(heap[articleContent.doc], articleContent.node)[i] = bylined[1][1].node

(***************************************************************************)
(* Properties of a Parser used again.                                      *)
(***************************************************************************)
\* C28: whatever calls came before, ParseDocument returns for a document
\* and a URL the Article, Language included, and the error that a new
\* Parser with the same options returns for them; the first call of the
\* behaviour is the call on the new Parser
ReusedParserAsFresh ==
  pc = "done" /\ returned # << >> /\ origDoc = returned[1].doc
    /\ documentURI = returned[1].pageURL =>
      /\ article = returned[1].article
      /\ err = returned[1].err

(***************************************************************************)
(* Properties of replaceBrs, called on the <body> of a document whose one  *)
(* <div> has the children call.kinds.                                      *)
(***************************************************************************)
BrsReplaced == call.fn = "replaceBrs" /\ ret # << >>

\* the <div> and its child nodes in the document given
BrDiv == Children(call.doc, BodyOf(call.doc))[1]

BrSiblings == call.doc[BrDiv].kids

\* the next sibling of the node that is no white space is a <br>
FollowedByBr(d, n) ==
  LET next == nextNode(d, NextSibling(d, n))
  IN  next # 0 /\ TagName(d, next) = "br"

\* the i-th child given is a <br> that a <br> follows, white space ignored
BrFollowed(i) ==
  /\ call.kinds[i] = "br"
  /\ \E j \in DOMAIN call.kinds :
        /\ j > i
        /\ call.kinds[j] = "br"
        /\ \A m \in (i + 1)..(j - 1) : call.kinds[m] = "space"

\* the i-th child given is a <br> that follows a <br>, white space ignored
BrFollowing(i) ==
  /\ call.kinds[i] = "br"
  /\ \E j \in DOMAIN call.kinds :
        /\ j < i
        /\ call.kinds[j] = "br"
        /\ \A m \in (j + 1)..(i - 1) : call.kinds[m] = "space"

\* the first <br>s of the runs of two or more, and the <br>s in no run
RunStarts == {i \in DOMAIN call.kinds : BrFollowed(i) /\ ~BrFollowing(i)}

LoneBrs == {i \in DOMAIN call.kinds : call.kinds[i] = "br" /\ ~BrFollowed(i) /\ ~BrFollowing(i)}

\* the children given after the run that starts at i, the <br>s of the run
\* left out, up to the next run or the next <div>
RECURSIVE Following(_, _)
Following(i, j) ==
  IF j > Len(call.kinds) THEN << >>
  ELSE IF call.kinds[j] = "div" \/ (BrFollowed(j) /\ ~BrFollowing(j)) THEN << >>
  ELSE IF BrFollowing(j) /\ \A m \in (i + 1)..j : call.kinds[m] \in {"br", "space"}
  THEN Following(i, j + 1)
  ELSE << BrSiblings[j] >> \o Following(i, j + 1)

RECURSIVE WithoutTrailing(_)
\* the nodes without the white space and the <br>s at their end
WithoutTrailing(nodes) ==
  IF nodes # << >> /\ isWhitespace(call.doc, nodes[Len(nodes)])
  THEN WithoutTrailing(SubSeq(nodes, 1, Len(nodes) - 1)) ELSE nodes

\* the paragraphs among the children of the <div> that replaceBrs left
BrParagraphs == SelectSeq(ret[1][BrDiv].kids, LAMBDA n : TagName(ret[1], n) = "p")

\* the run starts in their order
RECURSIVE Ordered(_)
Ordered(S) ==
  IF S = {} THEN << >>
  ELSE LET m == CHOOSE x \in S : \A y \in S : x <= y
       IN  << m >> \o Ordered(S \ {m})

\* every run of two or more <br>s is one <p> with the siblings that follow
RunsAreParagraphs ==
  /\ Len(BrParagraphs) = Cardinality(RunStarts)
  /\ \A k \in DOMAIN BrParagraphs :
        ret[1][BrParagraphs[k]].kids
          = WithoutTrailing(Following(Ordered(RunStarts)[k], Ordered(RunStarts)[k] + 1))

\* no <br> in the tree is followed by a <br>, white space ignored
NoBrPairLeft ==
  \A n \in DOMAIN ret[1] :
     TagName(ret[1], n) = "br" /\ ret[1][n].parent # 0 => ~FollowedByBr(ret[1], n)

\* C24 as stated: after replaceBrs a <br> in no run is still in the tree,
\* every run of two or more <br>s that only white space separates is one
\* <p> holding the phrasing siblings that followed it, and no two sibling
\* <br>s that only white space separates are left
BrRunsReplaced ==
  BrsReplaced =>
    /\ \A i \in LoneBrs : ret[1][BrSiblings[i]].parent # 0
    /\ RunsAreParagraphs
    /\ NoBrPairLeft

\* C24: the same, but a <br> in no run is still in the tree unless it is at
\* the end, white space ignored, of what the <p> of a run before it took in:
\* there it is removed with the white space
BrRunsReplacedLoneKept ==
  BrsReplaced =>
    /\ \A i \in LoneBrs :
          ret[1][BrSiblings[i]].parent = 0 <=>
            \E k \in RunStarts :
               /\ k < i
               /\ \E j \in DOMAIN Following(k, k + 1) : Following(k, k + 1)[j] = BrSiblings[i]
               /\ \A j \in DOMAIN WithoutTrailing(Following(k, k + 1)) :
                     WithoutTrailing(Following(k, k + 1))[j] # BrSiblings[i]
    /\ RunsAreParagraphs
    /\ NoBrPairLeft

\* the example of the comment: foo<br>bar<p>abc</p>, the first <br> kept
BrRunsReplacedWitness ==
  /\ BrsReplaced
  /\ call.kinds = BrExample
  /\ Len(ret[1][BrDiv].kids) = 4
  /\ TagName(ret[1], ret[1][BrDiv].kids[2]) = "br"
  /\ TagName(ret[1], ret[1][BrDiv].kids[4]) = "p"
  /\ getInnerText(ret[1], ret[1][BrDiv].kids[4], TRUE) = Word

(***************************************************************************)
(* Properties of the document grabArticle starts from.                     *)
(***************************************************************************)
\* the nodes of the tree d below its document node
NodesUnder(d) == {AllNodes(d, 1)[i] : i \in DOMAIN AllNodes(d, 1)}

\* the tree has a comment, or an element with one of the tags
HasNoise(d, tags) ==
  \E n \in NodesUnder(d) : d[n].type = "comment" \/ (d[n].type = "elem" /\ d[n].tag \in tags)

\* C25: when grabArticle starts, ps.doc holds no comment and no <script>,
\* <noscript>, <style> or <font> element, whatever the document given, a
\* document whose <noscript> image was unwrapped included
NoNoiseWhenGrabbing ==
  pc = "grab" /\ ran = << >> =>
    ~HasNoise(heap[psDoc], {"script", "noscript", "style", "font"})

\* grabArticle starts from a document that came with a comment, a <script>,
\* a <font> and a <noscript> whose image is now in the place of the lazy one
NoNoiseWitness ==
  /\ pc = "grab"
  /\ ran = << >>
  /\ \E n \in NodesUnder(origDoc) : origDoc[n].type = "comment"
  /\ \A t \in {"script", "noscript", "style", "font"} :
        \E n \in NodesUnder(origDoc) : origDoc[n].tag = t
  /\ \E n \in NodesUnder(heap[psDoc]) :
        /\ heap[psDoc][n].tag = "img"
        /\ GetAttribute(heap[psDoc], n, "src") = ImageURL
        /\ GetAttribute(heap[psDoc], n, "data-old-src") = RootedURI

(***************************************************************************)
(* Documents that come with data-readability-score or                      *)
(* data-readability-table attributes, each next to the same document       *)
(* without them, given one after the other to ParseDocument.  The value of *)
(* a data-readability-score attribute is held as the number                *)
(* getContentScore reads from it: 0 for the empty string.                  *)
(***************************************************************************)
ScoredPage(attrs) ==
  Page(<< >>,
       << E("div", attrs, << E("p", NoAttrs, << T(LongText) >>),
                             E("p", NoAttrs, << T(LongText) >>) >>),
          E("div", NoAttrs, << E("p", NoAttrs, << T(ShortText) >>) >>) >>)

TablePage(attrs) ==
  Page(<< >>,
       << E("div", NoAttrs, << E("p", NoAttrs, << T(LongText) >>),
                               CellTable(attrs, << T(Word) >>) >>) >>)

TwinDocuments ==
  {ScoredPage(NoAttrs), ScoredPage("data-readability-score" :> 0),
   TablePage(NoAttrs), TablePage("data-readability-table" :> << "true" >>)}

TwinNext ==
  \/ \E doc \in TwinDocuments : ParseDocument(doc, BaseURL)
  \/ \E doc \in TwinDocuments : ParseDocumentAgain(doc, BaseURL)
  \/ SizeCheck
  \/ Prep
  \/ GrabAttempt
  \/ PostProcess
  \/ Return

TwinSpec == Init /\ [][TwinNext]_vars

BookkeepingAttrs == {"data-readability-score", "data-readability-table"}

\* the tree d without the bookkeeping attributes of its elements
Unmarked(d) ==
  [n \in DOMAIN d |->
     IF d[n].type = "elem" /\ DOMAIN d[n].attrs \cap BookkeepingAttrs # {}
     THEN [d[n] EXCEPT !.attrs = [k \in DOMAIN d[n].attrs \ BookkeepingAttrs |-> d[n].attrs[k]]]
     ELSE d[n]]

\* the document of this call and the document of the first call differ in
\* bookkeeping attributes only, and in at least one of them
TwinOfFirst ==
  /\ returned # << >>
  /\ origDoc # returned[1].doc
  /\ Unmarked(origDoc) = Unmarked(returned[1].doc)

\* C29: two documents that differ only in the data-readability-score and
\* data-readability-table attributes they come with give the same content,
\* text and length
MarksOfInputIgnored ==
  pc = "done" /\ TwinOfFirst /\ documentURI = returned[1].pageURL =>
    /\ article.Content = returned[1].article.Content
    /\ article.TextContent = returned[1].article.TextContent
    /\ article.Length = returned[1].article.Length

(***************************************************************************)
(* Properties of the two tests of unlikely candidates.                     *)
(***************************************************************************)
\* C30: for every class+id string, CheckDocument skips a node for it
\* exactly when grabArticle drops a node for it as an unlikely candidate
SkipAndDropAgree ==
  call.fn = "matchString" /\ ret # << >> => ret[1].check = ret[1].grab
====
